---- MODULE Spec2Model ----
(***************************************************************************)
(* simple-gallery: the picture store with its tags, the token registry,    *)
(* the settings and the token based photo API (GET /photo,                 *)
(* GET /photo/file/:id) of one gallery; and the galleries of the server,   *)
(* each in its directory, with the sessions and passwords of their admins. *)
(* The handlers are synchronous (better-sqlite3 calls, no await), so each  *)
(* request is one atomic step.                                             *)
(***************************************************************************)
EXTENDS Integers, Sequences, FiniteSets, TLC

(* ------------------------------ bounds -------------------------------- *)
\* largest picture id the AUTOINCREMENT counter may hand out
MaxId == 3
\* longest recorded run of deliveries in the history variables
MaxRun == 4
\* largest picture id when two tokens are in use
MaxIdTokens == 2
\* longest string handed to normalizeTag, the scenario's string apart
MaxLen == 3
\* largest picture id when the tags are in use
MaxIdStore == 2
\* largest picture id when every mutation of the store is in use
MaxIdAdmin == 1
\* largest picture id when two requests are in flight together
MaxIdConc == 2
\* largest picture id when the callers of addPicture choose the filenames
MaxIdFiles == 3
\* largest picture id of a gallery when several galleries are in use
MaxIdTenants == 1
\* largest picture id when deliveries run among the mutations of the store
MaxIdFrame == 1
\* largest picture id when two tokens deliver in both modes
MaxIdPair == 2

\* token strings that requests may present; createToken draws from them
TokenNames == {"t1", "t2"}
\* the token strings crypto.randomBytes can produce in the model
Creatable == {"t1"}
\* value of req.query.token when the parameter is missing
NoTokenParam == ""
\* req.query.mode: anything other than 'random' is the sequential branch
Modes == {"next", "random"}

(* ------------------------------ state --------------------------------- *)
VARIABLES
    pictures,   \* ids of the rows of table pictures
    seq,        \* sqlite_sequence of pictures: the largest id ever assigned
    tokens,     \* table tokens: token string -> row
    issued,     \* token strings createToken has returned so far
    info,       \* description, date and location columns of the picture rows
    tags,       \* table tags: tag id -> name
    tagSeq,     \* sqlite_sequence of tags: the largest tag id ever assigned
    picture_tags, \* table picture_tags: pairs <<picture_id, tag_id>>
    settings,   \* table settings: key -> value
    res,        \* the request just handled and its response
    read,       \* history: the cursor and the picture id that request read
    pass,       \* history: sequential deliveries since the cursor was 0
    fresh,      \* history: sequential deliveries since the token was created
    served,     \* history: ids served sequentially in the current pass
    cycle,      \* history: randomized deliveries of the current cycle
    assigned,   \* history: every picture id addPicture has returned
    asked,      \* history: the names the last call of setPictureTags was given
    norm,       \* a call of normalizeTag: its argument and its results
    clients,    \* the GET /photo requests in flight and their outcomes
    solo,       \* history: each token as the deliveries of one mode alone leave it
    galleries,  \* the Map galleries of the server: key -> directory of the Gallery
    disk,       \* the gallery.db files: directory -> tables
    session,    \* req.session.authorized of each session: the gallery ids set
    req,        \* the request to apiRouter just handled
    trail       \* history: last password set per gallery, logins not logged out

\* the tables of the picture store besides pictures
store == <<info, tags, tagSeq, picture_tags>>
\* the history variables that do not follow the deliveries
\* the galleries of the server and the sessions
tenancy == <<galleries, disk, session, req, trail>>
others == <<assigned, asked, norm, clients, solo, tenancy>>
hist == <<pass, fresh, served, cycle, others>>
vars == <<pictures, seq, tokens, issued, info, tags, tagSeq, picture_tags,
          settings, res, read, pass, fresh, served, cycle, assigned, asked, norm,
          clients, solo, galleries, disk, session, req, trail>>

(* --------------------------- SQL / JS values -------------------------- *)
\* result of .get() when no row matches (undefined); picture ids start at 1
NoPic == 0
\* SQL NULL in a TEXT column (random_ids, description, date, location)
SqlNull == <<"NULL">>
\* a property the request body does not have
JsUndefined == <<"undefined">>
\* config.defaultMaxResolution
defaultMaxResolution == 1920
\* config.maxResolutionMin
maxResolutionMin == 100
\* config.maxResolutionMax
maxResolutionMax == 10000

DigitChar == <<"0", "1", "2", "3", "4", "5", "6", "7", "8", "9">>

RECURSIVE NumberToText(_)
\* decimal digits of a non-negative integer, as JSON.stringify writes it
NumberToText(n) ==
    IF n < 10 THEN <<DigitChar[n + 1]>>
    ELSE NumberToText(n \div 10) \o <<DigitChar[(n % 10) + 1]>>

RECURSIVE JoinNumbers(_)
JoinNumbers(ids) ==
    IF Len(ids) = 0 THEN <<>>
    ELSE IF Len(ids) = 1 THEN NumberToText(ids[1])
    ELSE NumberToText(ids[1]) \o <<",">> \o JoinNumbers(Tail(ids))

\* JSON.stringify of an array of integers: the characters of "[1,2,3]"
JSONstringify(ids) == <<"[">> \o JoinNumbers(ids) \o <<"]">>

DigitValue(c) == CHOOSE d \in 0..9 : DigitChar[d + 1] = c

RECURSIVE ParseItems(_, _, _)
\* scan the characters between the brackets: acc is the array so far, cur
\* the number being read (-1 when none)
ParseItems(text, acc, cur) ==
    IF Len(text) = 0
    THEN IF cur < 0 THEN acc ELSE Append(acc, cur)
    ELSE IF text[1] = ","
         THEN ParseItems(Tail(text), Append(acc, cur), -1)
         ELSE ParseItems(Tail(text), acc,
                         (IF cur < 0 THEN 0 ELSE cur * 10) + DigitValue(text[1]))

\* JSON.parse of the text JSONstringify wrote
JSONparse(text) == ParseItems(SubSeq(text, 2, Len(text) - 1), <<>>, -1)

(* ---------------------------- Gallery (db) ---------------------------- *)
RECURSIVE SortAsc(_)
\* ORDER BY id
SortAsc(S) ==
    IF S = {} THEN <<>>
    ELSE LET m == CHOOSE x \in S : \A y \in S : x <= y
         IN <<m>> \o SortAsc(S \ {m})

Largest(S) == CHOOSE x \in S : \A y \in S : y <= x

getPictureCount == Cardinality(pictures)

getAllPictureIds == SortAsc(pictures)

\* faulty variant: ORDER BY id DESC
getPictureByIndexDesc(index) ==
    IF index >= 0 /\ index < Len(getAllPictureIds)
    THEN getAllPictureIds[Len(getAllPictureIds) - index]
    ELSE NoPic

\* SELECT * FROM pictures ORDER BY id LIMIT 1 OFFSET index
getPictureByIndex(index) ==
    IF index >= 0 /\ index < Len(getAllPictureIds)
    THEN getAllPictureIds[index + 1]
    ELSE NoPic

getPictureById(id) == IF id \in pictures THEN id ELSE NoPic

\* getToken(token) finds a row
hasToken(token) == token \in DOMAIN tokens

\* the row createToken inserts: current_index 0, random_ids NULL, random_index 0
NewTokenRow == [current_index |-> 0, random_ids |-> SqlNull, random_index |-> 0]

\* the randomized state in a row of table tokens, random_ids parsed
randomStateOf(row) ==
    [isNull |-> row.random_ids = SqlNull,
     random_ids |-> IF row.random_ids = SqlNull THEN <<>>
                    ELSE JSONparse(row.random_ids),
     random_index |-> row.random_index]

getTokenRandomState(token) == randomStateOf(tokens[token])

\* faulty variant: the sequential write also rewinds the randomized cursor
updateTokenIndexRewinding(token, index) ==
    [tokens EXCEPT ![token].current_index = index,
                   ![token].random_index = 0]

\* UPDATE tokens SET current_index = ? WHERE token = ?
updateTokenIndex(token, index) ==
    [tokens EXCEPT ![token].current_index = index]

\* faulty variant: UPDATE tokens SET random_ids, random_index without the
\* WHERE clause
updateTokenRandomStateAll(token, ids, index) ==
    [t \in DOMAIN tokens |->
        [tokens[t] EXCEPT !.random_ids = JSONstringify(ids),
                          !.random_index = index]]

\* UPDATE tokens SET random_ids = ?, random_index = ? WHERE token = ?
updateTokenRandomState(token, ids, index) ==
    [tokens EXCEPT ![token].random_ids = JSONstringify(ids),
                   ![token].random_index = index]

(* ------------------------------ JS values ----------------------------- *)
\* a JS string, as the array of its characters
JsString(chars) == [type |-> "string", val |-> chars]
\* JSON null (typeof null is 'object')
JsNull == [type |-> "object", val |-> <<>>]

\* the arrays over A of length at most n
StringsUpTo(A, n) == UNION {[1..k -> A] : k \in 0..n}

UpperChars == <<"A", "B", "C", "D", "E", "F", "G", "H", "I", "J", "K", "L", "M",
                "N", "O", "P", "Q", "R", "S", "T", "U", "V", "W", "X", "Y", "Z">>
LowerChars == <<"a", "b", "c", "d", "e", "f", "g", "h", "i", "j", "k", "l", "m",
                "n", "o", "p", "q", "r", "s", "t", "u", "v", "w", "x", "y", "z">>

\* \s of a regular expression: space, tab, line feed, carriage return
IsSpace(c) == c \in {" ", "\t", "\n", "\r"}
\* \d
IsDigit(c) == \E d \in 1..10 : DigitChar[d] = c
\* [a-z0-9-]
IsSlugChar(c) == c = "-" \/ IsDigit(c) \/ \E i \in 1..26 : LowerChars[i] = c

(* ---------------------------- normalizeTag ---------------------------- *)
\* String.prototype.toLowerCase on one character
lowerChar(c) ==
    IF \E i \in 1..26 : UpperChars[i] = c
    THEN LowerChars[CHOOSE i \in 1..26 : UpperChars[i] = c]
    ELSE c

toLowerCase(s) == [i \in 1..Len(s) |-> lowerChar(s[i])]

RECURSIVE dropSpaces(_)
\* the rest of s after the run of whitespace it starts with
dropSpaces(s) ==
    IF Len(s) > 0 /\ IsSpace(s[1]) THEN dropSpaces(Tail(s)) ELSE s

RECURSIVE replaceSpaces(_)
\* .replace(/\s+/g, '-')
replaceSpaces(s) ==
    IF Len(s) = 0 THEN <<>>
    ELSE IF IsSpace(s[1]) THEN <<"-">> \o replaceSpaces(dropSpaces(s))
    ELSE <<s[1]>> \o replaceSpaces(Tail(s))

\* .replace(/[^a-z0-9-]/g, '')
stripOthers(s) == SelectSeq(s, IsSlugChar)

RECURSIVE dropHyphens(_)
dropHyphens(s) ==
    IF Len(s) > 0 /\ s[1] = "-" THEN dropHyphens(Tail(s)) ELSE s

RECURSIVE collapseHyphens(_)
\* .replace(/-+/g, '-')
collapseHyphens(s) ==
    IF Len(s) = 0 THEN <<>>
    ELSE IF s[1] = "-" THEN <<"-">> \o collapseHyphens(dropHyphens(s))
    ELSE <<s[1]>> \o collapseHyphens(Tail(s))

\* .replace(/^-|-$/g, ''): one hyphen at the start and one at the end
trimHyphens(s) ==
    LET a == IF Len(s) > 0 /\ s[1] = "-" THEN Tail(s) ELSE s
    IN IF Len(a) > 0 /\ a[Len(a)] = "-" THEN SubSeq(a, 1, Len(a) - 1) ELSE a

\* faulty variant: the ends are trimmed before the hyphens are collapsed
normalizeTagTrimFirst(s) ==
    IF s.type # "string" THEN <<>>
    ELSE collapseHyphens(trimHyphens(stripOthers(replaceSpaces(toLowerCase(s.val)))))

\* normalizeTag(s): the characters of the slug, none for the empty slug
normalizeTag(s) ==
    IF s.type # "string" THEN <<>>
    ELSE trimHyphens(collapseHyphens(stripOthers(replaceSpaces(toLowerCase(s.val)))))

(* ------------------------------ shuffle ------------------------------- *)
\* faulty variant: a[i] = a[j] without the exchange
SwapLossy(a, i, j) == [a EXCEPT ![i + 1] = a[j + 1]]

\* [a[i], a[j]] = [a[j], a[i]] with 0-based i, j
Swap(a, i, j) == [a EXCEPT ![i + 1] = a[j + 1], ![j + 1] = a[i + 1]]

RECURSIVE ShuffleFrom(_, _)
\* the loop of shuffle from index i down to 1, j drawn from 0..i
ShuffleFrom(a, i) ==
    IF i > 0
    THEN UNION {ShuffleFrom(Swap(a, i, j), i - 1) : j \in 0..i}
    ELSE {a}

\* every array Math.random can make shuffle return
shuffle(arr) == ShuffleFrom(arr, Len(arr) - 1)

RECURSIVE shuffleOn(_, _)
\* the two arrays of a call of shuffle while its loop runs from index i down
\* to 1: h.arr is the argument, h.a the copy the exchanges are made on
shuffleOn(h, i) ==
    IF i > 0
    THEN UNION {shuffleOn([h EXCEPT !.a = Swap(h.a, i, j)], i - 1) : j \in 0..i}
    ELSE {h}

\* const a = [...arr], the loop, return a: the argument and the returned
\* array when the call returns
shuffleCall(arr) == shuffleOn([arr |-> arr, a |-> arr], Len(arr) - 1)

(* ----------------------------- responses ------------------------------ *)
\* a request that read no cursor
NoRead == [cursor |-> -1, picId |-> NoPic]

\* a request that read no cursor and looked up picture id with getPictureById
lookupRead(id) == [cursor |-> -1, picId |-> id]

Response(op, token, mode, status, error, id) ==
    [op |-> op, token |-> token, mode |-> mode, status |-> status,
     error |-> error, id |-> id]

(* ------------------------- GET /photo handler ------------------------- *)
\* faulty variant: the stored cursor is used as the offset without reduction
seqIndexRaw(current_index, count) == current_index

\* index = tokenData.current_index % count
seqIndex(current_index, count) == current_index % count

\* faulty variant: the cursor is stored without being advanced
seqStoredStuck(index, count) == index % count

\* variant: the counter is stored without reduction, as index + 1
seqStoredRaw(index, count) == index + 1

\* the value handed to updateTokenIndex: (index + 1) % count
seqStored(index, count) == (index + 1) % count

\* !ids || ids.length === 0 || idx >= ids.length
needRegen(st) ==
    st.isNull \/ Len(st.random_ids) = 0 \/ st.random_index >= Len(st.random_ids)

\* the permutation and index the random branch reads the id from
randomRead(st, first) ==
    IF needRegen(st) THEN [ids |-> first, idx |-> 0]
    ELSE [ids |-> st.random_ids, idx |-> st.random_index]

\* faulty variant: the end of the permutation is not noticed at write time
randomWriteNoRegen(rd, second) == [ids |-> rd.ids, idx |-> rd.idx + 1]

\* faulty variant: at the end the permutation is dropped, and the next
\* delivery generates the one of the next cycle
randomWriteLazy(rd, second) ==
    IF rd.idx + 1 >= Len(rd.ids) THEN [ids |-> <<>>, idx |-> 0]
    ELSE [ids |-> rd.ids, idx |-> rd.idx + 1]

\* idx++ and the regeneration when the end is reached
randomWrite(rd, second) ==
    IF rd.idx + 1 >= Len(rd.ids) THEN [ids |-> second, idx |-> 0]
    ELSE [ids |-> rd.ids, idx |-> rd.idx + 1]

\* ids[idx]: undefined past the end of the array
elementAt(ids, idx) == IF idx < Len(ids) THEN ids[idx + 1] ELSE NoPic

RECURSIVE firstAlive(_, _)
\* variant: the first id at or after idx that still resolves
firstAlive(ids, idx) ==
    IF idx >= Len(ids) THEN NoPic
    ELSE IF ids[idx + 1] \in pictures THEN ids[idx + 1]
    ELSE firstAlive(ids, idx + 1)

\* variant: a stale id is skipped and the next resolvable id is served
randomPickSkip(rd) == firstAlive(rd.ids, rd.idx)

\* picId = ids[idx]; pic = getPictureById(picId)
randomPick(rd) == getPictureById(elementAt(rd.ids, rd.idx))

\* the arrays the first shuffle call can return; it is called only to regenerate
firstDraws(st) == IF needRegen(st) THEN shuffle(getAllPictureIds) ELSE {<<>>}

\* faulty variant: at the end the permutation just consumed is shuffled
\* again, without reading the ids of the collection
secondDrawsOfCache(rd) ==
    IF rd.idx + 1 >= Len(rd.ids) THEN shuffle(rd.ids) ELSE {<<>>}

\* the arrays the second shuffle call can return; it is called only at the end
secondDraws(rd) ==
    IF rd.idx + 1 >= Len(rd.ids) THEN shuffle(getAllPictureIds) ELSE {<<>>}

\* faulty variant: the 404 for an unresolvable id is returned before the
\* advanced cursor is written
PhotoRandomFromUnsaved(token, st) ==
    \E first \in firstDraws(st) :
        LET rd == randomRead(st, first)
        IN \E second \in secondDraws(rd) :
            LET pic == randomPick(rd)
                wr == randomWrite(rd, second)
            IN /\ tokens' = IF pic = NoPic THEN tokens
                            ELSE updateTokenRandomState(token, wr.ids, wr.idx)
               /\ read' = [cursor |-> rd.idx, picId |-> elementAt(rd.ids, rd.idx)]
               /\ res' = IF pic = NoPic
                         THEN Response("photo", token, "random", 404, "Not found", NoPic)
                         ELSE Response("photo", token, "random", 200, "", pic)

\* the random branch, st being what getTokenRandomState returned
PhotoRandomFrom(token, st) ==
    \E first \in firstDraws(st) :
        LET rd == randomRead(st, first)
        IN \E second \in secondDraws(rd) :
            LET pic == randomPick(rd)
                wr == randomWrite(rd, second)
            IN /\ tokens' = updateTokenRandomState(token, wr.ids, wr.idx)
               /\ read' = [cursor |-> rd.idx, picId |-> elementAt(rd.ids, rd.idx)]
               /\ res' = IF pic = NoPic
                         THEN Response("photo", token, "random", 404, "Not found", NoPic)
                         ELSE Response("photo", token, "random", 200, "", pic)

PhotoRandom(token) == PhotoRandomFrom(token, getTokenRandomState(token))

\* the sequential branch, tokenData being the row getToken returned
PhotoNextFrom(token, mode, tokenData) ==
    LET count == getPictureCount
        index == seqIndex(tokenData.current_index, count)
        pic == getPictureByIndex(index)
    IN /\ tokens' = updateTokenIndex(token, seqStored(index, count))
       /\ read' = [cursor |-> tokenData.current_index, picId |-> pic]
       /\ res' = IF pic = NoPic
                 THEN Response("photo", token, mode, 404, "Not found", NoPic)
                 ELSE Response("photo", token, mode, 200, "", pic)

PhotoNext(token, mode) == PhotoNextFrom(token, mode, tokens[token])

\* faulty variant: the empty gallery is answered like an unresolvable picture
photoRejectNotFound(token) ==
    IF token = NoTokenParam THEN <<400, "token required">>
    ELSE IF getPictureCount = 0 THEN <<404, "Not found">>
    ELSE IF ~hasToken(token) THEN <<403, "Invalid or revoked token">>
    ELSE <<200, "">>

\* the early returns, in the order the handler makes them
photoReject(token) ==
    IF token = NoTokenParam THEN <<400, "token required">>
    ELSE IF getPictureCount = 0 THEN <<404, "No pictures in gallery">>
    ELSE IF ~hasToken(token) THEN <<403, "Invalid or revoked token">>
    ELSE <<200, "">>

\* faulty variant: a delivery refused for the empty gallery restarts the
\* traversal of the token
PhotoFromResetting(token, mode, tokenData) ==
    /\ IF photoReject(token)[1] # 200
       THEN /\ res' = Response("photo", token, mode, photoReject(token)[1],
                               photoReject(token)[2], NoPic)
            /\ read' = NoRead
            /\ tokens' = IF photoReject(token)[1] = 404 /\ hasToken(token)
                         THEN [tokens EXCEPT ![token] = NewTokenRow]
                         ELSE tokens
       ELSE IF mode = "random" THEN PhotoRandomFrom(token, randomStateOf(tokenData))
       ELSE PhotoNextFrom(token, mode, tokenData)
    /\ UNCHANGED <<pictures, seq, issued, store, settings>>

\* the handler, tokenData being the row its call of getToken returns
PhotoFrom(token, mode, tokenData) ==
    /\ IF photoReject(token)[1] # 200
       THEN /\ res' = Response("photo", token, mode, photoReject(token)[1],
                               photoReject(token)[2], NoPic)
            /\ read' = NoRead
            /\ UNCHANGED tokens
       ELSE IF mode = "random" THEN PhotoRandomFrom(token, randomStateOf(tokenData))
       ELSE PhotoNextFrom(token, mode, tokenData)
    /\ UNCHANGED <<pictures, seq, issued, store, settings>>

\* getToken(token): the row, read when the handler runs (when there is none
\* the handler returns before it uses the value)
getToken(token) == IF hasToken(token) THEN tokens[token] ELSE NewTokenRow

Photo(token, mode) == PhotoFrom(token, mode, getToken(token))

(* --------------------- GET /photo/file/:id handler -------------------- *)
fileReject(token) ==
    IF token = NoTokenParam THEN <<400, "token required">>
    ELSE IF ~hasToken(token) THEN <<403, "Invalid or revoked token">>
    ELSE <<200, "">>

\* the response of the handler
fileResponse(token, id) ==
    IF fileReject(token)[1] # 200
    THEN Response("file", token, "", fileReject(token)[1],
                  fileReject(token)[2], NoPic)
    ELSE IF getPictureById(id) = NoPic
    THEN Response("file", token, "", 404, "Not found", NoPic)
    ELSE Response("file", token, "", 200, "", id)

\* what the handler read: no cursor, and the id it looked up if it got there
fileRead(token, id) ==
    IF fileReject(token)[1] # 200 THEN NoRead ELSE lookupRead(id)

\* faulty variant: a successful fetch moves the sequential cursor of the token
PhotoFileAdvancing(token, id) ==
    /\ res' = fileResponse(token, id)
    /\ read' = fileRead(token, id)
    /\ tokens' = IF fileResponse(token, id).status = 200
                 THEN updateTokenIndex(token, tokens[token].current_index + 1)
                 ELSE tokens
    /\ UNCHANGED <<pictures, seq, issued, store, settings>>

PhotoFile(token, id) ==
    /\ res' = fileResponse(token, id)
    /\ read' = fileRead(token, id)
    /\ UNCHANGED <<pictures, seq, tokens, issued, store, settings>>

(* ---------------------- GET /photo requests in flight ------------------ *)
\* two clients that send GET /photo with the same token
Clients == {"c1", "c2"}
\* the token both present
SharedToken == "t1"

\* no request in flight and no outcome kept
ClientIdle ==
    [stage |-> "idle", mode |-> "next", there |-> FALSE, seen |-> NewTokenRow,
     got |-> FALSE, before |-> NewTokenRow, after |-> NewTokenRow,
     n |-> 0, id |-> NoPic, order |-> 0]

\* the request of client c reaches the server and waits for the event loop;
\* seen is the row of the token at that moment
Send(c, mode) ==
    /\ clients[c].stage = "idle"
    /\ clients' = [clients EXCEPT ![c] =
           [ClientIdle EXCEPT !.stage = "sent", !.mode = mode,
                              !.there = hasToken(SharedToken),
                              !.seen = getToken(SharedToken)]]
    /\ UNCHANGED <<pictures, seq, tokens, issued, store, settings, res, read>>

\* faulty variant: the handler works on the row as it was when the request
\* arrived, as if it had read it before giving way to other requests
tokenDataAtArrival(c) ==
    IF clients[c].there THEN clients[c].seen ELSE getToken(SharedToken)

\* tokenData in the handler of the request of c: getToken is called when the
\* handler runs, and the handler runs to its end without giving way
tokenData(c) == getToken(SharedToken)

\* the other client
Peer(c) == CHOOSE d \in Clients : d # c

\* the event loop runs the handler of the request of c, from its first
\* statement to its response; order is 1 when the request of the other
\* client is in flight meanwhile, 2 when this is that other request
Handle(c) ==
    /\ clients[c].stage = "sent"
    /\ PhotoFrom(SharedToken, clients[c].mode, tokenData(c))
    /\ clients' = [clients EXCEPT ![c] =
           [@ EXCEPT !.stage = "done",
                     !.got = (read' # NoRead),
                     !.before = tokenData(c),
                     !.after = IF SharedToken \in DOMAIN tokens'
                               THEN tokens'[SharedToken] ELSE NewTokenRow,
                     !.n = getPictureCount,
                     !.id = res'.id,
                     !.order = IF clients[Peer(c)].stage = "sent" THEN 1
                               ELSE IF clients[Peer(c)].stage = "done"
                                       /\ clients[Peer(c)].order = 1 THEN 2
                               ELSE 0]]

\* the responses have been received: the outcomes are dropped
Forget ==
    /\ \E c \in Clients : clients[c].stage = "done"
    /\ clients' = [c \in Clients |->
                       IF clients[c].stage = "done" THEN ClientIdle
                       ELSE clients[c]]
    /\ UNCHANGED <<pictures, seq, tokens, issued, store, settings, res, read>>

(* ------------------------------ admin --------------------------------- *)
\* v || null for a text value: undefined, null and '' are stored as NULL
orNull(v) == IF v \in {JsUndefined, SqlNull, <<>>} THEN SqlNull ELSE v

\* faulty variant: the id is one more than the largest id now in the table
\* (a rowid without AUTOINCREMENT)
lastInsertRowidReused == IF pictures = {} THEN 1 ELSE Largest(pictures) + 1

\* result.lastInsertRowid: AUTOINCREMENT gives an id above every id ever used
lastInsertRowid == seq + 1

\* the rows of pictures after the INSERT of addPicture
infoAfterAdd(filename, date, location) ==
    [p \in pictures \cup {lastInsertRowid} |->
        IF p = lastInsertRowid
        THEN [filename |-> filename, description |-> SqlNull,
              date |-> orNull(date), location |-> orNull(location)]
        ELSE info[p]]

\* a filename the caller of addPicture chose
NamedFile(name) == <<"name", name>>

\* crypto.randomBytes(16).toString('hex') + ext of the upload handler: a name
\* no earlier upload was given
randomFilename == <<"hex", seq + 1>>

\* faulty variant: column filename without the UNIQUE constraint
filenameTakenNever(filename) == FALSE

\* filename TEXT NOT NULL UNIQUE: a row of pictures has this filename
filenameTaken(filename) == \E p \in pictures : info[p].filename = filename

\* the SqliteError the INSERT throws on a filename already in the table
UniqueFailed == "UNIQUE constraint failed: pictures.filename"

\* addPicture(filename, date, location): the INSERT throws on a filename
\* already in the table, and the statement then leaves no trace
AddPictureNamed(filename, date, location) ==
    /\ seq < MaxId
    /\ IF filenameTaken(filename)
       THEN /\ res' = Response("addPicture", "", "", 500, UniqueFailed, NoPic)
            /\ UNCHANGED <<pictures, seq, info>>
       ELSE /\ pictures' = pictures \cup {lastInsertRowid}
            /\ seq' = IF lastInsertRowid > seq THEN lastInsertRowid ELSE seq
            /\ info' = infoAfterAdd(filename, date, location)
            /\ res' = Response("addPicture", "", "", 200, "", lastInsertRowid)
    /\ read' = NoRead
    /\ UNCHANGED <<tokens, issued, tags, tagSeq, picture_tags, settings>>

\* addPicture with the filename of an upload
AddPicture(date, location) == AddPictureNamed(randomFilename, date, location)

picturesAfterDelete(id) == pictures \ {id}

\* the picture columns after DELETE FROM pictures WHERE id = ?
infoAfterDelete(id) == [p \in picturesAfterDelete(id) |-> info[p]]

\* faulty variant: the foreign key without ON DELETE CASCADE enforcement
pictureTagsKept(id) == picture_tags

\* ON DELETE CASCADE of picture_tags.picture_id
pictureTagsAfterDelete(id) == {pt \in picture_tags : pt[1] # id}

\* variant: deleting a picture also drops every cached permutation
DeletePicturePurging(id) ==
    /\ IF getPictureById(id) = NoPic
       THEN /\ res' = Response("deletePicture", "", "", 404, "Not found", NoPic)
            /\ UNCHANGED <<pictures, tokens, info, picture_tags>>
       ELSE /\ pictures' = picturesAfterDelete(id)
            /\ info' = infoAfterDelete(id)
            /\ picture_tags' = pictureTagsAfterDelete(id)
            /\ tokens' = [t \in DOMAIN tokens |->
                             [tokens[t] EXCEPT !.random_ids = SqlNull,
                                               !.random_index = 0]]
            /\ res' = Response("deletePicture", "", "", 200, "", id)
    /\ read' = lookupRead(id)
    /\ UNCHANGED <<seq, issued, tags, tagSeq, settings>>

DeletePicture(id) ==
    /\ IF getPictureById(id) = NoPic
       THEN /\ res' = Response("deletePicture", "", "", 404, "Not found", NoPic)
            /\ UNCHANGED <<pictures, info, picture_tags>>
       ELSE /\ pictures' = picturesAfterDelete(id)
            /\ info' = infoAfterDelete(id)
            /\ picture_tags' = pictureTagsAfterDelete(id)
            /\ res' = Response("deletePicture", "", "", 200, "", id)
    /\ read' = lookupRead(id)
    /\ UNCHANGED <<seq, tokens, issued, tags, tagSeq, settings>>

\* crypto.randomBytes(24): a string no earlier call returned
CreateToken(token) ==
    /\ token \notin issued
    /\ tokens' = [t \in DOMAIN tokens \cup {token} |->
                     IF t = token THEN NewTokenRow ELSE tokens[t]]
    /\ issued' = issued \cup {token}
    /\ res' = Response("createToken", token, "", 201, "", NoPic)
    /\ read' = NoRead
    /\ UNCHANGED <<pictures, seq, store, settings>>

\* faulty variant: DELETE FROM tokens without the WHERE clause
DeleteTokenAll(token) ==
    /\ IF hasToken(token)
       THEN /\ tokens' = <<>>
            /\ res' = Response("deleteToken", token, "", 200, "", NoPic)
       ELSE /\ res' = Response("deleteToken", token, "", 404, "Token not found", NoPic)
            /\ UNCHANGED tokens
    /\ read' = NoRead
    /\ UNCHANGED <<pictures, seq, issued, store, settings>>

DeleteToken(token) ==
    /\ IF hasToken(token)
       THEN /\ tokens' = [t \in DOMAIN tokens \ {token} |-> tokens[t]]
            /\ res' = Response("deleteToken", token, "", 200, "", NoPic)
       ELSE /\ res' = Response("deleteToken", token, "", 404, "Token not found", NoPic)
            /\ UNCHANGED tokens
    /\ read' = NoRead
    /\ UNCHANGED <<pictures, seq, issued, store, settings>>

(* ------------------------- tags of the pictures ------------------------ *)
\* the tables the picture methods of Gallery write, besides the id set
Db == [info |-> info, tags |-> tags, tagSeq |-> tagSeq,
       picture_tags |-> picture_tags]

\* no row: .get() returned undefined
NoTag == 0

\* SELECT id FROM tags WHERE name = ?
tagIdOf(tg, n) ==
    IF \E i \in DOMAIN tg : tg[i] = n
    THEN CHOOSE i \in DOMAIN tg : tg[i] = n
    ELSE NoTag

\* faulty variant: the name is stored as given, without normalizeTag
getOrCreateTagIdRaw(db, name) ==
    LET n == IF name.type = "string" THEN name.val ELSE <<>>
    IN IF n = <<>> THEN [db |-> db, id |-> NoTag]
       ELSE IF tagIdOf(db.tags, n) # NoTag
       THEN [db |-> db, id |-> tagIdOf(db.tags, n)]
       ELSE [db |-> [db EXCEPT
                        !.tags = [i \in DOMAIN db.tags \cup {db.tagSeq + 1} |->
                                     IF i = db.tagSeq + 1 THEN n ELSE db.tags[i]],
                        !.tagSeq = db.tagSeq + 1],
             id |-> db.tagSeq + 1]

\* getOrCreateTagId(name): the tables afterwards and the id, NoTag for null
getOrCreateTagId(db, name) ==
    LET n == normalizeTag(name)
    IN IF n = <<>> THEN [db |-> db, id |-> NoTag]
       ELSE IF tagIdOf(db.tags, n) # NoTag
       THEN [db |-> db, id |-> tagIdOf(db.tags, n)]
       ELSE [db |-> [db EXCEPT
                        !.tags = [i \in DOMAIN db.tags \cup {db.tagSeq + 1} |->
                                     IF i = db.tagSeq + 1 THEN n ELSE db.tags[i]],
                        !.tagSeq = db.tagSeq + 1],
             id |-> db.tagSeq + 1]

RECURSIVE mapTagIds(_, _, _)
\* tagNames.map((n) => this.getOrCreateTagId(n)).filter(Boolean), the calls
\* made from left to right: the tables afterwards and the ids
mapTagIds(db, tagNames, ids) ==
    IF Len(tagNames) = 0 THEN [db |-> db, ids |-> ids]
    ELSE LET r == getOrCreateTagId(db, tagNames[1])
         IN mapTagIds(r.db, Tail(tagNames),
                      IF r.id = NoTag THEN ids ELSE Append(ids, r.id))

\* [...new Set(ids)]
distinctOf(ids) == {ids[i] : i \in 1..Len(ids)}

\* faulty variant: the old associations of the picture are kept
setPictureTagsKeeping(db, pictureId, tagNames) ==
    IF pictureId \notin DOMAIN db.info THEN [db |-> db, ret |-> FALSE]
    ELSE LET m == mapTagIds(db, tagNames, <<>>)
         IN [db |-> [m.db EXCEPT !.picture_tags =
                         @ \cup {<<pictureId, t>> : t \in distinctOf(m.ids)}],
             ret |-> TRUE]

\* faulty variant: the picture is not looked up before the tags are made
\* (the INSERT into picture_tags then fails on the foreign key)
setPictureTagsUnchecked(db, pictureId, tagNames) ==
    LET cleared == [db EXCEPT !.picture_tags =
                        {pt \in @ : pt[1] # pictureId}]
        m == mapTagIds(cleared, tagNames, <<>>)
    IN IF pictureId \notin DOMAIN db.info THEN [db |-> m.db, ret |-> FALSE]
       ELSE [db |-> [m.db EXCEPT !.picture_tags =
                         @ \cup {<<pictureId, t>> : t \in distinctOf(m.ids)}],
             ret |-> TRUE]

\* setPictureTags(pictureId, tagNames): the tables afterwards and the result
setPictureTags(db, pictureId, tagNames) ==
    IF pictureId \notin DOMAIN db.info THEN [db |-> db, ret |-> FALSE]
    ELSE LET cleared == [db EXCEPT !.picture_tags =
                             {pt \in @ : pt[1] # pictureId}]
             m == mapTagIds(cleared, tagNames, <<>>)
         IN [db |-> [m.db EXCEPT !.picture_tags =
                         @ \cup {<<pictureId, t>> : t \in distinctOf(m.ids)}],
             ret |-> TRUE]

\* getPictureTags(pictureId): the names (the ORDER BY left aside)
getPictureTags(pictureId) ==
    {tags[pt[2]] : pt \in {q \in picture_tags : q[1] = pictureId}}

\* listTagsWithCount(): a row <<name, count>> for every row of tags, the LEFT
\* JOIN counting its associations (the ORDER BY left aside)
listTagsWithCount ==
    {<<tags[i], Cardinality({pt \in picture_tags : pt[2] = i})>> :
        i \in DOMAIN tags}

updatePictureDescription(db, id, description) ==
    IF id \notin DOMAIN db.info THEN [db |-> db, ret |-> FALSE]
    ELSE [db |-> [db EXCEPT !.info[id].description = orNull(description)],
          ret |-> TRUE]

updatePictureDateLocation(db, id, date, location) ==
    IF id \notin DOMAIN db.info THEN [db |-> db, ret |-> FALSE]
    ELSE [db |-> [db EXCEPT !.info[id].date = orNull(date),
                            !.info[id].location = orNull(location)],
          ret |-> TRUE]

\* the tables become db; the id set is not touched
WriteDb(db) ==
    /\ info' = db.info
    /\ tags' = db.tags
    /\ tagSeq' = db.tagSeq
    /\ picture_tags' = db.picture_tags

\* the response of a picture method: true, or false for an absent picture
methodResponse(op, ret, id) ==
    IF ret THEN Response(op, "", "", 200, "", id)
    ELSE Response(op, "", "", 404, "Not found", NoPic)

\* faulty variant: setting the tags of a picture also restarts the traversal
\* of every token
SetPictureTagsResetting(id, tagNames) ==
    /\ LET r == setPictureTags(Db, id, tagNames)
       IN /\ WriteDb(r.db)
          /\ res' = methodResponse("setPictureTags", r.ret, id)
    /\ read' = lookupRead(id)
    /\ tokens' = [t \in DOMAIN tokens |-> NewTokenRow]
    /\ UNCHANGED <<pictures, seq, issued, settings>>

SetPictureTags(id, tagNames) ==
    /\ LET r == setPictureTags(Db, id, tagNames)
       IN /\ WriteDb(r.db)
          /\ res' = methodResponse("setPictureTags", r.ret, id)
    /\ read' = lookupRead(id)
    /\ UNCHANGED <<pictures, seq, tokens, issued, settings>>

\* the TypeError of tagNames.map when tagNames is not an array
NotIterable == "TypeError: tagNames.map is not a function"

\* setPictureTags(pictureId, tagNames) called with a tagNames that is not an
\* array: the DELETE of the old associations has run when tagNames.map
\* throws, and no transaction takes it back
SetPictureTagsNotArray(id) ==
    /\ IF getPictureById(id) = NoPic
       THEN /\ res' = methodResponse("setPictureTags", FALSE, id)
            /\ UNCHANGED picture_tags
       ELSE /\ picture_tags' = {pt \in picture_tags : pt[1] # id}
            /\ res' = Response("setPictureTags", "", "", 500, NotIterable, NoPic)
    /\ read' = lookupRead(id)
    /\ UNCHANGED <<pictures, seq, tokens, issued, info, tags, tagSeq, settings>>

UpdatePictureDescription(id, description) ==
    /\ LET r == updatePictureDescription(Db, id, description)
       IN /\ WriteDb(r.db)
          /\ res' = methodResponse("updatePictureDescription", r.ret, id)
    /\ read' = lookupRead(id)
    /\ UNCHANGED <<pictures, seq, tokens, issued, settings>>

UpdatePictureDateLocation(id, date, location) ==
    /\ LET r == updatePictureDateLocation(Db, id, date, location)
       IN /\ WriteDb(r.db)
          /\ res' = methodResponse("updatePictureDateLocation", r.ret, id)
    /\ read' = lookupRead(id)
    /\ UNCHANGED <<pictures, seq, tokens, issued, settings>>

\* /^\d{4}$/.test(year)
IsYear(year) == Len(year) = 4 /\ \A i \in 1..4 : IsDigit(year[i])

\* exif.date.slice(0, 4)
yearOf(date) == SubSeq(date, 1, IF Len(date) < 4 THEN Len(date) ELSE 4)

\* POST /admin/upload, for one file: addPicture, and the year of the EXIF
\* date as the only tag when there is a date
Upload(date, location) ==
    /\ seq < MaxId
    /\ pictures' = pictures \cup {lastInsertRowid}
    /\ seq' = IF lastInsertRowid > seq THEN lastInsertRowid ELSE seq
    /\ LET added == [Db EXCEPT !.info = infoAfterAdd(randomFilename, date, location)]
       IN WriteDb(IF orNull(date) # SqlNull /\ IsYear(yearOf(date))
                  THEN setPictureTags(added, lastInsertRowid,
                                      <<JsString(yearOf(date))>>).db
                  ELSE added)
    /\ res' = Response("upload", "", "", 200, "", lastInsertRowid)
    /\ read' = NoRead
    /\ UNCHANGED <<tokens, issued, settings>>

\* req.body.tags that is not an array
NotArray == [isArray |-> FALSE, items |-> <<>>]
JsArray(items) == [isArray |-> TRUE, items |-> items]

\* PATCH /admin/pictures/:id
PatchPicture(id, body) ==
    /\ IF getPictureById(id) = NoPic
       THEN /\ res' = Response("patchPicture", "", "", 404, "Not found", NoPic)
            /\ UNCHANGED store
       ELSE LET d1 == IF body.description # JsUndefined
                      THEN updatePictureDescription(Db, id, body.description).db
                      ELSE Db
                d2 == IF body.tags.isArray
                      THEN setPictureTags(d1, id, body.tags.items).db
                      ELSE d1
                d3 == IF body.date # JsUndefined \/ body.location # JsUndefined
                      THEN updatePictureDateLocation(d2, id, body.date,
                                                     body.location).db
                      ELSE d2
            IN /\ WriteDb(d3)
               /\ res' = Response("patchPicture", "", "", 200, "", id)
    /\ read' = lookupRead(id)
    /\ UNCHANGED <<pictures, seq, tokens, issued, settings>>

(* ------------------------- inputs of the store ------------------------- *)
\* "sea"
DescSea == <<"s", "e", "a">>
\* "2024-05-01", as extractExif formats a date
Date2024 == <<"2", "0", "2", "4", "-", "0", "5", "-", "0", "1">>
\* "48.8,2.3"
LocParis == <<"4", "8", ".", "8", ",", "2", ".", "3">>

\* "Paris", "paris", "  PARIS ", "!!", "Old Town"
NameParis == JsString(<<"P", "a", "r", "i", "s">>)
NameParisLower == JsString(<<"p", "a", "r", "i", "s">>)
NameParisSpaced == JsString(<<" ", " ", "P", "A", "R", "I", "S", " ">>)
NameBangs == JsString(<<"!", "!">>)
NameOldTown == JsString(<<"O", "l", "d", " ", "T", "o", "w", "n">>)

\* the arrays of names handed to setPictureTags: none, the scenario's three
\* spellings, names without a slug, two slugs in either order, one slug
NameArrays ==
    {<<>>,
     <<NameParis, NameParisLower, NameParisSpaced>>,
     <<NameBangs, JsNull>>,
     <<NameOldTown, NameBangs, NameParis>>,
     <<NameParisLower, JsNull, NameOldTown, NameParis>>,
     <<NameOldTown>>}

\* the arrays among them that make no tag but paris
FewNameArrays ==
    {<<>>,
     <<NameParis, NameParisLower, NameParisSpaced>>,
     <<NameBangs, JsNull>>}

\* what extractExif found in the file: nothing, or a date and a position
ExifInputs == {<<SqlNull, SqlNull>>, <<Date2024, LocParis>>}

\* description of a request: '' or a text
DescriptionInputs == {<<>>, DescSea}

\* date and location of a request: both missing, or both given
DateLocationInputs == {<<JsUndefined, JsUndefined>>, <<Date2024, LocParis>>}

\* bodies of PATCH requests: no property, the description and the tags,
\* the tags and the location without the date
PatchBodies ==
    {[description |-> JsUndefined, tags |-> NotArray,
      date |-> JsUndefined, location |-> JsUndefined],
     [description |-> DescSea, tags |-> JsArray(<<NameParisSpaced>>),
      date |-> JsUndefined, location |-> JsUndefined],
     [description |-> JsUndefined, tags |-> JsArray(<<>>),
      date |-> JsUndefined, location |-> LocParis]}

(* ----------------------------- settings ------------------------------- *)
\* a JSON number in the request body
JsNumber(n) == [type |-> "number", val |-> n]
\* the property is missing from the request body
JsMissing == [type |-> "undefined", val |-> 0]

\* the values of max_resolution the requests carry: below the range, inside
\* it, and none
ResolutionInputs == {JsNumber(maxResolutionMin - 1), JsNumber(1080), JsMissing}

\* setSetting(key, value): INSERT OR REPLACE with String(value)
setSetting(key, value) == [settings EXCEPT ![key] = NumberToText(value)]

\* PUT /admin/settings
PutSettings(max_resolution) ==
    /\ IF \/ max_resolution.type # "number"
          \/ max_resolution.val < maxResolutionMin
          \/ max_resolution.val > maxResolutionMax
       THEN /\ res' = Response("putSettings", "", "", 400,
                               "max_resolution out of range", NoPic)
            /\ UNCHANGED settings
       ELSE /\ settings' = setSetting("max_resolution", max_resolution.val)
            /\ res' = Response("putSettings", "", "", 200, "", NoPic)
    /\ read' = NoRead
    /\ UNCHANGED <<pictures, seq, tokens, issued, store>>

(* ------------------------ galleries of the server --------------------- *)
\* req.params.userId of a request to /api: undefined
NoUser == ""
\* the user ids requests carry: none, 'default', a user, and one the
\* middleware refuses
UserIds == {NoUser, "default", "alice", ".."}
\* /^[a-zA-Z0-9_-]+$/.test(userId) for the user ids of the model
ValidUserId(userId) == userId \in {"default", "alice"}
\* the sessions (cookies) that send requests
Sessions == {"s1", "s2"}

\* DATA_DIR, as a path
DATA_DIR == <<"data">>
\* config.password: the global password
PASSWORD == "changeme"

\* const key = userId || 'default'
keyOf(userId) == IF userId = NoUser THEN "default" ELSE userId

\* const dir = userId ? path.join(DATA_DIR, userId) : DATA_DIR
dirOf(userId) == IF userId = NoUser THEN DATA_DIR ELSE DATA_DIR \o <<userId>>

\* the tables of a gallery.db right after initDb created them
EmptyDb ==
    [pictures |-> {}, seq |-> 0, info |-> <<>>, tokens |-> <<>>,
     tags |-> <<>>, tagSeq |-> 0, picture_tags |-> {}, settings |-> <<>>]

\* getGallery(userId): the cached Gallery of the key, or a new Gallery on the
\* directory, whose initDb opens the gallery.db there and creates it if it
\* is not there; gives the Map and the files afterwards and the directory
\* of the Gallery returned
getGallery(userId) ==
    IF keyOf(userId) \in DOMAIN galleries
    THEN [galleries |-> galleries, disk |-> disk,
          dir |-> galleries[keyOf(userId)]]
    ELSE [galleries |-> [k \in DOMAIN galleries \cup {keyOf(userId)} |->
                            IF k = keyOf(userId) THEN dirOf(userId)
                            ELSE galleries[k]],
          disk |-> [d \in DOMAIN disk \cup {dirOf(userId)} |->
                       IF d \in DOMAIN disk THEN disk[d] ELSE EmptyDb],
          dir |-> dirOf(userId)]

\* the tables req.gallery works on
galleryDb(userId) == getGallery(userId).disk[getGallery(userId).dir]

\* getSetting(key) on tables db: the value, or null
getSettingIn(db, key) ==
    IF key \in DOMAIN db.settings THEN db.settings[key] ELSE SqlNull

\* setSetting(key, value) on tables db: INSERT OR REPLACE
setSettingIn(db, key, value) ==
    [db EXCEPT !.settings = [k \in DOMAIN db.settings \cup {key} |->
                                IF k = key THEN value ELSE db.settings[k]]]

\* faulty variant: the hash does not depend on the password
hashOfSalt(password, salt) == <<"pbkdf2", "", salt>>

\* hashPassword(password, salt).hash: PBKDF2 of the password under the salt
hashOf(password, salt) == <<"pbkdf2", password, salt>>

\* crypto.randomBytes(16).toString('hex') of hashPassword without a salt
Salts == {"5a", "c3"}

\* what a handler leaves: the tables of req.gallery, req.session.authorized
\* and the response
Outcome(db, auth, r) == [db |-> db, auth |-> auth, res |-> r]

\* POST /login with req.body.password
loginOutcomes(db, auth, galleryId, password) ==
    LET galleryHash == getSettingIn(db, "password")
        gallerySalt == getSettingIn(db, "password_salt")
        authorized ==
            IF galleryHash # SqlNull /\ gallerySalt # SqlNull
            THEN hashOf(password, gallerySalt[1]) = galleryHash
            ELSE password = PASSWORD
    IN IF authorized
       THEN {Outcome(db, auth \cup {galleryId},
                     Response("login", "", "", 200, "", NoPic))}
       ELSE {Outcome(db, auth,
                     Response("login", "", "", 401, "Invalid password", NoPic))}

\* POST /logout
logoutOutcomes(db, auth, galleryId) ==
    {Outcome(db, auth \ {galleryId}, Response("logout", "", "", 200, "", NoPic))}

\* faulty variant: being logged in to any gallery is enough
requireAuthAny(db, auth, galleryId, op, outs) ==
    IF auth # {} THEN outs
    ELSE {Outcome(db, auth, Response(op, "", "", 401, "Unauthorized", NoPic))}

\* requireAuth before a handler whose outcomes are outs
requireAuth(db, auth, galleryId, op, outs) ==
    IF galleryId \in auth THEN outs
    ELSE {Outcome(db, auth, Response(op, "", "", 401, "Unauthorized", NoPic))}

\* PUT /admin/password with req.body.password
passwordOutcomes(db, auth, password) ==
    IF password = ""
    THEN {Outcome(db, auth,
                  Response("putPassword", "", "", 400, "Password required", NoPic))}
    ELSE {Outcome(setSettingIn(setSettingIn(db, "password", hashOf(password, salt)),
                               "password_salt", <<salt>>),
                  auth, Response("putPassword", "", "", 200, "", NoPic)) :
             salt \in Salts}

\* POST /admin/upload of one file on tables db: addPicture, and the year of
\* the EXIF date as the only tag of the picture when there is a date
uploadOutcomes(db, auth, date) ==
    LET id == db.seq + 1
        added == [db EXCEPT
                     !.pictures = @ \cup {id},
                     !.seq = id,
                     !.info = [p \in db.pictures \cup {id} |->
                                  IF p = id
                                  THEN [filename |-> <<"hex", id>>,
                                        description |-> SqlNull,
                                        date |-> orNull(date),
                                        location |-> SqlNull]
                                  ELSE db.info[p]]]
    IN {Outcome(IF orNull(date) # SqlNull /\ IsYear(yearOf(date))
                THEN setPictureTags(added, id, <<JsString(yearOf(date))>>).db
                ELSE added,
                auth, Response("upload", "", "", 200, "", id))}

\* DELETE /admin/pictures/:id on tables db
deleteOutcomes(db, auth, id) ==
    IF id \notin db.pictures
    THEN {Outcome(db, auth,
                  Response("deletePicture", "", "", 404, "Not found", NoPic))}
    ELSE {Outcome([db EXCEPT
                      !.pictures = @ \ {id},
                      !.info = [p \in db.pictures \ {id} |-> db.info[p]],
                      !.picture_tags = {pt \in @ : pt[1] # id}],
                  auth, Response("deletePicture", "", "", 200, "", id))}

\* POST /admin/tokens on tables db, token being what createToken draws
createTokenOutcomes(db, auth, token) ==
    {Outcome([db EXCEPT !.tokens = [t \in DOMAIN db.tokens \cup {token} |->
                                       IF t = token THEN NewTokenRow
                                       ELSE db.tokens[t]]],
             auth, Response("createToken", token, "", 201, "", NoPic))}

\* DELETE /admin/tokens/:token on tables db
deleteTokenOutcomes(db, auth, token) ==
    IF token \in DOMAIN db.tokens
    THEN {Outcome([db EXCEPT !.tokens = [t \in DOMAIN db.tokens \ {token} |->
                                            db.tokens[t]]],
                  auth, Response("deleteToken", token, "", 200, "", NoPic))}
    ELSE {Outcome(db, auth,
                  Response("deleteToken", token, "", 404, "Token not found", NoPic))}

\* the early returns of GET /photo on tables db
photoRejectIn(db, token) ==
    IF token = NoTokenParam THEN <<400, "token required">>
    ELSE IF db.pictures = {} THEN <<404, "No pictures in gallery">>
    ELSE IF token \notin DOMAIN db.tokens THEN <<403, "Invalid or revoked token">>
    ELSE <<200, "">>

\* the response of GET /photo for the picture found, NoPic for none
photoResponse(token, mode, pic) ==
    IF pic = NoPic THEN Response("photo", token, mode, 404, "Not found", NoPic)
    ELSE Response("photo", token, mode, 200, "", pic)

\* the random branch of GET /photo on tables db
photoRandomOutcomes(db, auth, token) ==
    LET st == randomStateOf(db.tokens[token])
        all == SortAsc(db.pictures)
    IN {LET rd == randomRead(st, draw[1])
            picId == elementAt(rd.ids, rd.idx)
            wr == randomWrite(rd, draw[2])
        IN Outcome([db EXCEPT
                       !.tokens[token].random_ids = JSONstringify(wr.ids),
                       !.tokens[token].random_index = wr.idx],
                   auth,
                   photoResponse(token, "random",
                                 IF picId \in db.pictures THEN picId ELSE NoPic)) :
           draw \in shuffle(all) \X shuffle(all)}

\* the sequential branch of GET /photo on tables db
photoNextOutcomes(db, auth, token, mode) ==
    LET count == Cardinality(db.pictures)
        index == seqIndex(db.tokens[token].current_index, count)
    IN {Outcome([db EXCEPT !.tokens[token].current_index = seqStored(index, count)],
                auth,
                photoResponse(token, mode, SortAsc(db.pictures)[index + 1]))}

\* GET /photo on tables db
photoOutcomes(db, auth, token, mode) ==
    IF photoRejectIn(db, token)[1] # 200
    THEN {Outcome(db, auth, Response("photo", token, mode, photoRejectIn(db, token)[1],
                                     photoRejectIn(db, token)[2], NoPic))}
    ELSE IF mode = "random" THEN photoRandomOutcomes(db, auth, token)
    ELSE photoNextOutcomes(db, auth, token, mode)

\* GET /photo/file/:id on tables db
fileOutcomes(db, auth, token, id) ==
    {Outcome(db, auth,
             IF token = NoTokenParam
             THEN Response("file", token, "", 400, "token required", NoPic)
             ELSE IF token \notin DOMAIN db.tokens
             THEN Response("file", token, "", 403, "Invalid or revoked token", NoPic)
             ELSE IF id \notin db.pictures
             THEN Response("file", token, "", 404, "Not found", NoPic)
             ELSE Response("file", token, "", 200, "", id))}

\* the request just handled: session, user id, route and argument
Request(sid, userId, op, arg) ==
    [sid |-> sid, userId |-> userId, op |-> op, arg |-> arg]

\* trail.lastSet[g]: the password the last successful PUT /admin/password of
\* gallery g set, "" for none; trail.logged[s]: the galleries session s has
\* logged in to and not logged out of since; trail.issued: the strings
\* createToken has returned
NoTrail ==
    [lastSet |-> [g \in {keyOf(u) : u \in {u \in UserIds : ValidUserId(u)}} |-> ""],
     logged |-> [sid \in Sessions |-> {}],
     issued |-> {}]

TrailHist ==
    trail' =
        IF res'.status \notin {200, 201} THEN trail
        ELSE LET g == keyOf(req'.userId)
             IN IF res'.op = "putPassword"
                THEN [trail EXCEPT !.lastSet[g] = req'.arg]
                ELSE IF res'.op = "login"
                THEN [trail EXCEPT !.logged[req'.sid] = @ \cup {g}]
                ELSE IF res'.op = "logout"
                THEN [trail EXCEPT !.logged[req'.sid] = @ \ {g}]
                ELSE IF res'.op = "createToken"
                THEN [trail EXCEPT !.issued = @ \cup {res'.token}]
                ELSE trail

\* a request to apiRouter: the middleware refuses a malformed user id, else
\* attaches the gallery of the user id, and the handler leaves one of outs
Serve(sid, userId, op, arg, outs) ==
    /\ IF userId # NoUser /\ ~ValidUserId(userId)
       THEN /\ res' = Response(op, "", "", 400, "Invalid user ID", NoPic)
            /\ UNCHANGED <<galleries, disk, session>>
       ELSE \E out \in outs :
               /\ galleries' = getGallery(userId).galleries
               /\ disk' = [getGallery(userId).disk EXCEPT
                               ![getGallery(userId).dir] = out.db]
               /\ session' = [session EXCEPT ![sid] = out.auth]
               /\ res' = out.res
    /\ req' = Request(sid, userId, op, arg)
    /\ TrailHist
    /\ UNCHANGED <<pictures, seq, tokens, issued, store, settings, read,
                   pass, fresh, served, cycle, assigned, asked, norm, clients,
                   solo>>

Login(sid, userId, password) ==
    Serve(sid, userId, "login", password,
          loginOutcomes(galleryDb(userId), session[sid], keyOf(userId), password))

Logout(sid, userId) ==
    Serve(sid, userId, "logout", "",
          logoutOutcomes(galleryDb(userId), session[sid], keyOf(userId)))

PutPassword(sid, userId, password) ==
    Serve(sid, userId, "putPassword", password,
          requireAuth(galleryDb(userId), session[sid], keyOf(userId), "putPassword",
                      passwordOutcomes(galleryDb(userId), session[sid], password)))

AdminUpload(sid, userId, date) ==
    Serve(sid, userId, "upload", "",
          requireAuth(galleryDb(userId), session[sid], keyOf(userId), "upload",
                      uploadOutcomes(galleryDb(userId), session[sid], date)))

AdminDeletePicture(sid, userId, id) ==
    Serve(sid, userId, "deletePicture", "",
          requireAuth(galleryDb(userId), session[sid], keyOf(userId), "deletePicture",
                      deleteOutcomes(galleryDb(userId), session[sid], id)))

\* crypto.randomBytes(24): a string no earlier call returned
AdminCreateToken(sid, userId, token) ==
    /\ token \notin trail.issued
    /\ Serve(sid, userId, "createToken", "",
             requireAuth(galleryDb(userId), session[sid], keyOf(userId), "createToken",
                         createTokenOutcomes(galleryDb(userId), session[sid], token)))

AdminDeleteToken(sid, userId, token) ==
    Serve(sid, userId, "deleteToken", "",
          requireAuth(galleryDb(userId), session[sid], keyOf(userId), "deleteToken",
                      deleteTokenOutcomes(galleryDb(userId), session[sid], token)))

GetPhoto(sid, userId, token, mode) ==
    Serve(sid, userId, "photo", "",
          photoOutcomes(galleryDb(userId), session[sid], token, mode))

GetPhotoFile(sid, userId, token, id) ==
    Serve(sid, userId, "file", "",
          fileOutcomes(galleryDb(userId), session[sid], token, id))

\* the server has started: no Gallery is cached, no gallery.db exists and no
\* session is authorized
InitServer ==
    /\ galleries = <<>>
    /\ disk = <<>>
    /\ session = [sid \in Sessions |-> {}]
    /\ req = Request("", NoUser, "init", "")
    /\ trail = NoTrail

(* ------------------------- history variables -------------------------- *)
\* the step just taken changed the picture collection
Mutated == pictures' # pictures

\* the step just taken created token t
Created(t) == res'.op = "createToken" /\ res'.token = t

\* the step just taken was a sequential delivery for t that got past the
\* early returns (it read and wrote the cursor)
SeqDelivered(t) ==
    res'.op = "photo" /\ res'.token = t /\ res'.mode # "random" /\ read' # NoRead

\* the same for a randomized delivery
RndDelivered(t) ==
    res'.op = "photo" /\ res'.token = t /\ res'.mode = "random" /\ read' # NoRead

\* assigned: the ids the INSERT of addPicture has returned so far
AssignedHist ==
    assigned' = IF res'.op \in {"addPicture", "upload"}
                THEN assigned \cup {res'.id}
                ELSE assigned

PassOff == [on |-> FALSE, log |-> <<>>]

\* pass[t].log: the ids served to t by sequential deliveries since a moment
\* at which its stored cursor was 0, the collection being unchanged since
PassHist ==
    pass' = [t \in TokenNames |->
        IF Created(t) THEN [on |-> TRUE, log |-> <<>>]
        ELSE IF t \notin DOMAIN tokens' THEN PassOff
        ELSE IF Mutated
        THEN [on |-> hasToken(t) /\ tokens[t].current_index = 0, log |-> <<>>]
        ELSE IF SeqDelivered(t)
        THEN IF pass[t].on /\ Len(pass[t].log) < MaxRun
             THEN [on |-> TRUE, log |-> Append(pass[t].log, res'.id)]
             ELSE [on |-> tokens'[t].current_index = 0, log |-> <<>>]
        ELSE pass[t]]

FreshOff == [on |-> FALSE, log |-> <<>>]

\* fresh[t] with event ev about picture id recorded, while there is room
FreshRecord(t, ev, id) ==
    IF Len(fresh[t].log) < MaxRun
    THEN [on |-> TRUE, log |-> Append(fresh[t].log, [ev |-> ev, id |-> id])]
    ELSE FreshOff

\* fresh[t].log: the inserts and the sequential deliveries for t since t was
\* created, as long as no picture has been deleted
FreshHist ==
    fresh' = [t \in TokenNames |->
        IF Created(t) THEN [on |-> TRUE, log |-> <<>>]
        ELSE IF t \notin DOMAIN tokens' THEN FreshOff
        ELSE IF ~fresh[t].on THEN FreshOff
        ELSE IF Mutated /\ res'.op = "deletePicture" THEN FreshOff
        ELSE IF Mutated THEN FreshRecord(t, "insert", res'.id)
        ELSE IF SeqDelivered(t) THEN FreshRecord(t, "serve", res'.id)
        ELSE fresh[t]]

ServedNew == [del |-> FALSE, ins |-> FALSE, ids |-> {}, again |-> NoPic]

\* served[t]: ids are the surviving pictures served to t by the sequential
\* deliveries of its current pass, a pass ending when every surviving picture
\* has been served; again is an id that was served while already in ids; del
\* tells that a picture was deleted since t was created, ins that a picture
\* was inserted after the first delivery of the current pass
ServedHist ==
    served' = [t \in TokenNames |->
        IF Created(t) THEN ServedNew
        ELSE IF t \notin DOMAIN tokens' THEN ServedNew
        ELSE IF Mutated
        THEN LET left == served[t].ids \cap pictures'
                 done == pictures' \subseteq left
             IN [del |-> served[t].del \/ res'.op = "deletePicture",
                 ins |-> ~done /\ (served[t].ins
                                   \/ (res'.op = "addPicture" /\ left # {})),
                 ids |-> IF done THEN {} ELSE left,
                 again |-> served[t].again]
        ELSE IF SeqDelivered(t) /\ res'.status = 200
        THEN LET now == served[t].ids \cup {res'.id}
                 done == pictures \subseteq now
             IN [del |-> served[t].del,
                 ins |-> ~done /\ served[t].ins,
                 ids |-> IF done THEN {} ELSE now,
                 again |-> IF res'.id \in served[t].ids THEN res'.id
                           ELSE served[t].again]
        ELSE served[t]]

CycleOff == [stale |-> FALSE, on |-> FALSE, fromFresh |-> FALSE, log |-> <<>>]

\* the randomized cursor of row is at the start of a permutation
AtBoundary(row) == row.random_ids = SqlNull \/ row.random_index = 0

\* cycle[t].log: the results of the randomized deliveries for t since a
\* moment at which its cursor was at the start of a permutation, at most as
\* many as there are pictures, the collection being unchanged since; stale
\* tells that the collection has changed since the cached permutation was
\* generated, fromFresh that the permutation the log starts with was
\* generated from the collection as it is now
CycleHist ==
    cycle' = [t \in TokenNames |->
        IF Created(t)
        THEN [stale |-> FALSE, on |-> TRUE, fromFresh |-> TRUE, log |-> <<>>]
        ELSE IF t \notin DOMAIN tokens' THEN CycleOff
        ELSE IF Mutated
        THEN LET st == tokens[t].random_ids # SqlNull
             IN IF AtBoundary(tokens[t])
                THEN [stale |-> st, on |-> TRUE, fromFresh |-> ~st, log |-> <<>>]
                ELSE [stale |-> st, on |-> FALSE, fromFresh |-> FALSE, log |-> <<>>]
        ELSE IF RndDelivered(t)
        THEN LET staleRead == ~needRegen(getTokenRandomState(t)) /\ cycle[t].stale
                 staleNow == tokens'[t].random_index # 0 /\ staleRead
             IN IF cycle[t].on /\ Len(cycle[t].log) < Cardinality(pictures)
                THEN [stale |-> staleNow, on |-> TRUE,
                      fromFresh |-> cycle[t].fromFresh,
                      log |-> Append(cycle[t].log, res'.id)]
                ELSE IF AtBoundary(tokens[t])
                THEN [stale |-> staleNow, on |-> TRUE,
                      fromFresh |-> ~staleRead, log |-> <<res'.id>>]
                ELSE [stale |-> staleNow, on |-> FALSE,
                      fromFresh |-> FALSE, log |-> <<>>]
        ELSE cycle[t]]

\* solo[t] for a token just created, or not there
SoloNew == [next |-> NewTokenRow, random |-> NewTokenRow, id |-> NoPic]

\* the randomized cursor and permutation of two rows are the same
SameRandomState(row, other) ==
    /\ row.random_ids = other.random_ids
    /\ row.random_index = other.random_index

\* solo[t].next: the row of t had its sequential deliveries been made alone;
\* solo[t].random: the row of t had its randomized deliveries been made
\* alone, shuffle returning the arrays it returned; solo[t].id: the picture
\* id the delivery just made for t gives in the run where its mode is alone
SoloHist ==
    solo' = [t \in TokenNames |->
        IF Created(t) \/ t \notin DOMAIN tokens' THEN SoloNew
        ELSE IF SeqDelivered(t)
        THEN LET count == getPictureCount
                 index == seqIndex(solo[t].next.current_index, count)
             IN [solo[t] EXCEPT
                    !.next.current_index = seqStored(index, count),
                    !.id = getPictureByIndex(index)]
        ELSE IF RndDelivered(t)
        THEN LET st == randomStateOf(solo[t].random)
             IN IF SameRandomState(solo[t].random, tokens[t])
                THEN [solo[t] EXCEPT
                         !.random.random_ids = tokens'[t].random_ids,
                         !.random.random_index = tokens'[t].random_index,
                         !.id = IF needRegen(st) THEN res'.id
                                ELSE getPictureById(
                                         elementAt(st.random_ids, st.random_index))]
                ELSE solo[t]
        ELSE solo[t]]

(* ------------------------ calls of normalizeTag ------------------------ *)
\* characters of the arguments: a letter of each case, a digit, whitespace,
\* the hyphen and punctuation
NormAlphabet == {"a", "B", "7", " ", "-", "!"}

\* "  Paris, 2024!! "
ParisRaw ==
    <<" ", " ", "P", "a", "r", "i", "s", ",", " ", "2", "0", "2", "4", "!", "!", " ">>

\* the arguments: every short string, the long one, and a value that is
\* not a string
NormInputs ==
    {JsString(c) : c \in StringsUpTo(NormAlphabet, MaxLen)}
        \cup {JsString(ParisRaw), JsNull}

\* no call in progress
NormIdle == [stage |-> "idle", x |-> JsNull, once |-> <<>>, twice |-> <<>>]

\* normalizeTag(x)
Normalize ==
    /\ norm.stage = "in"
    /\ norm' = [norm EXCEPT !.stage = "once", !.once = normalizeTag(norm.x)]

\* normalizeTag applied to the string the first call returned
NormalizeAgain ==
    /\ norm.stage = "once"
    /\ norm' = [norm EXCEPT !.stage = "twice",
                            !.twice = normalizeTag(JsString(norm.once))]

(* --------------------------- specification ---------------------------- *)
\* the tables after initDb
InitTables ==
    /\ pictures = {}
    /\ seq = 0
    /\ tokens = <<>>
    /\ issued = {}
    /\ info = <<>>
    /\ tags = <<>>
    /\ tagSeq = 0
    /\ picture_tags = {}
    /\ settings = [max_resolution |-> NumberToText(defaultMaxResolution)]
    /\ res = Response("init", "", "", 200, "", NoPic)
    /\ read = NoRead

InitHist ==
    /\ pass = [t \in TokenNames |-> PassOff]
    /\ fresh = [t \in TokenNames |-> FreshOff]
    /\ served = [t \in TokenNames |-> ServedNew]
    /\ cycle = [t \in TokenNames |-> CycleOff]
    /\ assigned = {}
    /\ asked = <<>>
    /\ solo = [t \in TokenNames |-> SoloNew]

Init ==
    /\ InitTables /\ InitHist
    /\ norm = NormIdle
    /\ clients = [c \in Clients |-> ClientIdle]
    /\ InitServer

\* a call of normalizeTag with any of the arguments
InitNorm ==
    /\ InitTables /\ InitHist
    /\ \E x \in NormInputs : norm = [NormIdle EXCEPT !.stage = "in", !.x = x]
    /\ clients = [c \in Clients |-> ClientIdle]
    /\ InitServer

NoHist == UNCHANGED hist

Next ==
    \/ \E token \in TokenNames \cup {NoTokenParam}, mode \in Modes :
           Photo(token, mode) /\ NoHist
    \/ \E token \in TokenNames \cup {NoTokenParam}, id \in 1..MaxId :
           PhotoFile(token, id) /\ NoHist
    \/ AddPicture(SqlNull, SqlNull) /\ NoHist
    \/ \E id \in 1..MaxId : DeletePicture(id) /\ NoHist
    \/ \E token \in Creatable : CreateToken(token) /\ NoHist
    \/ \E token \in TokenNames : DeleteToken(token) /\ NoHist

\* the program alone
Spec == Init /\ [][Next]_vars

OnlyPass == PassHist /\ UNCHANGED <<fresh, served, cycle, others>>

NextPass ==
    \/ \E token \in TokenNames \cup {NoTokenParam}, mode \in Modes :
           Photo(token, mode) /\ OnlyPass
    \/ \E token \in TokenNames \cup {NoTokenParam}, id \in 1..MaxId :
           PhotoFile(token, id) /\ OnlyPass
    \/ AddPicture(SqlNull, SqlNull) /\ OnlyPass
    \/ \E id \in 1..MaxId : DeletePicture(id) /\ OnlyPass
    \/ \E token \in Creatable : CreateToken(token) /\ OnlyPass
    \/ \E token \in TokenNames : DeleteToken(token) /\ OnlyPass

\* the program with the history of sequential passes
SpecPass == Init /\ [][NextPass]_vars

OnlyFresh == FreshHist /\ UNCHANGED <<pass, served, cycle, others>>

NextFresh ==
    \/ \E token \in TokenNames \cup {NoTokenParam}, mode \in Modes :
           Photo(token, mode) /\ OnlyFresh
    \/ \E token \in TokenNames \cup {NoTokenParam}, id \in 1..MaxId :
           PhotoFile(token, id) /\ OnlyFresh
    \/ AddPicture(SqlNull, SqlNull) /\ OnlyFresh
    \/ \E id \in 1..MaxId : DeletePicture(id) /\ OnlyFresh
    \/ \E token \in Creatable : CreateToken(token) /\ OnlyFresh
    \/ \E token \in TokenNames : DeleteToken(token) /\ OnlyFresh

\* the program with the history of a token since its creation
SpecFresh == Init /\ [][NextFresh]_vars

OnlyServed == ServedHist /\ UNCHANGED <<pass, fresh, cycle, others>>

NextServed ==
    \/ \E token \in TokenNames \cup {NoTokenParam}, mode \in Modes :
           Photo(token, mode) /\ OnlyServed
    \/ \E token \in TokenNames \cup {NoTokenParam}, id \in 1..MaxId :
           PhotoFile(token, id) /\ OnlyServed
    \/ AddPicture(SqlNull, SqlNull) /\ OnlyServed
    \/ \E id \in 1..MaxId : DeletePicture(id) /\ OnlyServed
    \/ \E token \in Creatable : CreateToken(token) /\ OnlyServed
    \/ \E token \in TokenNames : DeleteToken(token) /\ OnlyServed

\* the program with the set of pictures served in the current pass
SpecServed == Init /\ [][NextServed]_vars

OnlyCycle == CycleHist /\ UNCHANGED <<pass, fresh, served, others>>

NextCycle ==
    \/ \E token \in TokenNames \cup {NoTokenParam}, mode \in Modes :
           Photo(token, mode) /\ OnlyCycle
    \/ \E token \in TokenNames \cup {NoTokenParam}, id \in 1..MaxId :
           PhotoFile(token, id) /\ OnlyCycle
    \/ AddPicture(SqlNull, SqlNull) /\ OnlyCycle
    \/ \E id \in 1..MaxId : DeletePicture(id) /\ OnlyCycle
    \/ \E token \in Creatable : CreateToken(token) /\ OnlyCycle
    \/ \E token \in TokenNames : DeleteToken(token) /\ OnlyCycle

\* the program with the history of randomized cycles
SpecCycle == Init /\ [][NextCycle]_vars

\* the deliveries asked for when two tokens are in use: the holder of the
\* second token asks for sequential deliveries only
TokenModes ==
    {tm \in (TokenNames \cup {NoTokenParam}) \X Modes :
        tm[1] \in Creatable \/ tm[2] # "random"}

NextTokens ==
    \/ \E tm \in TokenModes : Photo(tm[1], tm[2]) /\ NoHist
    \/ \E token \in TokenNames \cup {NoTokenParam}, id \in 1..MaxIdTokens :
           PhotoFile(token, id) /\ NoHist
    \/ seq < MaxIdTokens /\ AddPicture(SqlNull, SqlNull) /\ NoHist
    \/ \E id \in 1..MaxIdTokens : DeletePicture(id) /\ NoHist
    \/ \E token \in TokenNames : CreateToken(token) /\ NoHist
    \/ \E token \in TokenNames : DeleteToken(token) /\ NoHist
    \/ \E v \in ResolutionInputs : PutSettings(v) /\ NoHist

\* the program with two tokens in use and the settings
SpecTokens == Init /\ [][NextTokens]_vars

NextNorm ==
    \/ Normalize /\ UNCHANGED <<pictures, seq, tokens, issued, store, settings,
                                 res, read, pass, fresh, served, cycle, assigned,
                                 asked, clients, solo, tenancy>>
    \/ NormalizeAgain /\ UNCHANGED <<pictures, seq, tokens, issued, store,
                                      settings, res, read, pass, fresh, served,
                                      cycle, assigned, asked, clients, solo,
                                      tenancy>>

\* normalizeTag called on each argument, and again on its result
SpecNorm == InitNorm /\ [][NextNorm]_vars

\* the step was setPictureTags(id, tagNames): the names are recorded
Asked(tagNames) == asked' = tagNames
\* the step was another call: the names of the last setPictureTags stay
NotAsked == UNCHANGED asked

OnlyStore ==
    AssignedHist
    /\ UNCHANGED <<pass, fresh, served, cycle, norm, clients, solo, tenancy>>

NextStore ==
    \/ \E ex \in ExifInputs :
           seq < MaxIdStore /\ Upload(ex[1], ex[2]) /\ OnlyStore /\ NotAsked
    \/ \E id \in 1..MaxIdStore : DeletePicture(id) /\ OnlyStore /\ NotAsked
    \/ \E id \in 1..MaxIdStore, tagNames \in NameArrays :
           SetPictureTags(id, tagNames) /\ OnlyStore /\ Asked(tagNames)

\* the picture store with its tags, and the ids it has assigned
SpecStore == Init /\ [][NextStore]_vars

\* the filenames the callers of addPicture choose
FileNames == {"a.jpg", "b.jpg"}

NextFiles ==
    \/ \E name \in FileNames :
           /\ seq < MaxIdFiles
           /\ AddPictureNamed(NamedFile(name), SqlNull, SqlNull)
           /\ NoHist
    \/ seq < MaxIdFiles /\ AddPicture(SqlNull, SqlNull) /\ NoHist
    \/ \E id \in 1..MaxIdFiles : DeletePicture(id) /\ NoHist

\* addPicture called with filenames that may be in the table already
SpecFiles == Init /\ [][NextFiles]_vars

NextAtomic ==
    \/ \E ex \in ExifInputs :
           seq < MaxIdStore /\ Upload(ex[1], ex[2]) /\ OnlyStore /\ NotAsked
    \/ \E id \in 1..MaxIdStore : DeletePicture(id) /\ OnlyStore /\ NotAsked
    \/ \E id \in 1..MaxIdStore, tagNames \in FewNameArrays :
           SetPictureTags(id, tagNames) /\ OnlyStore /\ Asked(tagNames)
    \/ \E id \in 1..MaxIdStore :
           SetPictureTagsNotArray(id) /\ OnlyStore /\ NotAsked

\* the picture store under calls of setPictureTags that may throw
SpecAtomic == Init /\ [][NextAtomic]_vars

NextAdmin ==
    \/ \E ex \in ExifInputs :
           seq < MaxIdAdmin /\ Upload(ex[1], ex[2]) /\ OnlyStore /\ NotAsked
    \/ \E id \in 1..(MaxIdAdmin + 1) :
           DeletePicture(id) /\ OnlyStore /\ NotAsked
    \/ \E id \in 1..(MaxIdAdmin + 1), tagNames \in FewNameArrays :
           SetPictureTags(id, tagNames) /\ OnlyStore /\ Asked(tagNames)
    \/ \E id \in 1..(MaxIdAdmin + 1), description \in DescriptionInputs :
           UpdatePictureDescription(id, description) /\ OnlyStore /\ NotAsked
    \/ \E id \in 1..(MaxIdAdmin + 1), dl \in DateLocationInputs :
           UpdatePictureDateLocation(id, dl[1], dl[2]) /\ OnlyStore /\ NotAsked
    \/ \E id \in 1..(MaxIdAdmin + 1), body \in PatchBodies :
           PatchPicture(id, body) /\ OnlyStore /\ NotAsked

\* every mutation of the picture store, also of pictures that are not there
SpecAdmin == Init /\ [][NextAdmin]_vars

NextFrame ==
    \/ \E token \in Creatable, mode \in Modes : Photo(token, mode) /\ NoHist
    \/ \E token \in Creatable : CreateToken(token) /\ NoHist
    \/ \E ex \in ExifInputs :
           seq < MaxIdFrame /\ Upload(ex[1], ex[2]) /\ NoHist
    \/ \E id \in 1..MaxIdFrame : DeletePicture(id) /\ NoHist
    \/ \E id \in 1..MaxIdFrame :
           SetPictureTags(id, <<NameParis, NameParisLower, NameParisSpaced>>)
               /\ NoHist
    \/ \E id \in 1..MaxIdFrame : UpdatePictureDescription(id, DescSea) /\ NoHist
    \/ \E id \in 1..MaxIdFrame :
           UpdatePictureDateLocation(id, Date2024, LocParis) /\ NoHist

\* the deliveries of one token among the mutations of the picture store
SpecFrame == Init /\ [][NextFrame]_vars

OnlyClients ==
    UNCHANGED <<pass, fresh, served, cycle, assigned, asked, norm, solo,
                tenancy>>

NextConc ==
    \/ \E c \in Clients, mode \in Modes : Send(c, mode) /\ OnlyClients
    \/ \E c \in Clients : Handle(c) /\ OnlyClients
    \/ Forget /\ OnlyClients
    \/ seq < MaxIdConc /\ AddPicture(SqlNull, SqlNull) /\ NoHist
    \/ \E token \in Creatable : CreateToken(token) /\ NoHist

\* two clients whose requests with one token are in flight together
SpecConc == Init /\ [][NextConc]_vars

NextPair ==
    \/ \E token \in TokenNames, mode \in Modes : Photo(token, mode) /\ NoHist
    \/ seq < MaxIdPair /\ AddPicture(SqlNull, SqlNull) /\ NoHist
    \/ \E id \in 1..MaxIdPair : DeletePicture(id) /\ NoHist
    \/ \E token \in TokenNames : CreateToken(token) /\ NoHist
    \/ \E token \in TokenNames : DeleteToken(token) /\ NoHist

\* two tokens, each delivering in both modes, over a changing collection
SpecPair == Init /\ [][NextPair]_vars

OnlySolo ==
    SoloHist
    /\ UNCHANGED <<pass, fresh, served, cycle, assigned, asked, norm, clients,
                   tenancy>>

NextModes ==
    \/ \E token \in TokenNames \cup {NoTokenParam}, mode \in Modes :
           Photo(token, mode) /\ OnlySolo
    \/ AddPicture(SqlNull, SqlNull) /\ OnlySolo
    \/ \E id \in 1..MaxId : DeletePicture(id) /\ OnlySolo
    \/ \E token \in Creatable : CreateToken(token) /\ OnlySolo
    \/ \E token \in TokenNames : DeleteToken(token) /\ OnlySolo

\* the program with, for each token, the runs of its two modes taken alone
SpecModes == Init /\ [][NextModes]_vars

\* one session that logs in with the global password and administers the
\* galleries, and deliveries and fetches with the tokens of any of them
NextTenants ==
    \/ \E userId \in UserIds : Login("s1", userId, PASSWORD)
    \/ \E userId \in UserIds :
           /\ galleryDb(userId).seq < MaxIdTenants
           /\ AdminUpload("s1", userId, SqlNull)
    \/ \E userId \in UserIds, id \in 1..MaxIdTenants :
           AdminDeletePicture("s1", userId, id)
    \/ \E userId \in UserIds, token \in TokenNames :
           AdminCreateToken("s1", userId, token)
    \/ \E userId \in UserIds, token \in TokenNames :
           AdminDeleteToken("s1", userId, token)
    \/ \E userId \in UserIds, token \in TokenNames, mode \in Modes :
           GetPhoto("s1", userId, token, mode)
    \/ \E userId \in UserIds, token \in TokenNames, id \in 1..MaxIdTenants :
           GetPhotoFile("s1", userId, token, id)

\* the galleries of the server, each with its pictures and tokens
SpecTenants == Init /\ [][NextTenants]_vars

\* req.body.password of a login: the global password, another one, none
LoginPasswords == {PASSWORD, "secret", ""}
\* req.body.password of PUT /admin/password: a password, none
NewPasswords == {"secret", ""}

\* two sessions that log in and out of the galleries, set their passwords
\* and administer them
NextAuth ==
    \/ \E sid \in Sessions, userId \in UserIds, password \in LoginPasswords :
           Login(sid, userId, password)
    \/ \E sid \in Sessions, userId \in UserIds : Logout(sid, userId)
    \/ \E sid \in Sessions, userId \in UserIds, password \in NewPasswords :
           PutPassword(sid, userId, password)
    \/ \E sid \in Sessions, userId \in UserIds, token \in Creatable :
           AdminCreateToken(sid, userId, token)

\* the sessions and the passwords of the galleries
SpecAuth == Init /\ [][NextAuth]_vars

(* ------------------------------ properties --------------------------- *)
\* ordinal index k of collection S: the picture with exactly k smaller ids
Ordinal(S, k) == CHOOSE p \in S : Cardinality({q \in S : q < p}) = k

\* C1: while the collection is not mutated, the sequential deliveries of a
\* token whose stored cursor was 0 serve ordinals 0, 1, ..., n-1 in ascending
\* id order, and then ordinal 0 again, and so on: the k-th of them (from 1)
\* serves ordinal (k-1) mod n.
SeqFullPass ==
    \A t \in DOMAIN tokens :
        pass[t].on =>
            \A k \in 1..Len(pass[t].log) :
                /\ pictures # {}
                /\ pass[t].log[k] = Ordinal(pictures, (k - 1) % Cardinality(pictures))

\* a pass over at least two pictures has completed and the delivery after
\* it has been made
SeqFullPassWitness ==
    \E t \in DOMAIN tokens :
        /\ pass[t].on
        /\ Cardinality(pictures) >= 2
        /\ Len(pass[t].log) = Cardinality(pictures) + 1

\* the last request was a sequential delivery for t
IsSeqPhoto(t) == res.op = "photo" /\ res.token = t /\ res.mode # "random"

\* the last request was a randomized delivery for t
IsRndPhoto(t) == res.op = "photo" /\ res.token = t /\ res.mode = "random"

SeqReadsModLiveSize ==
    \A t \in DOMAIN tokens :
        (IsSeqPhoto(t) /\ pictures # {}) =>
            /\ res.status = 200
            /\ res.id \in pictures
            /\ res.id = Ordinal(pictures, read.cursor % Cardinality(pictures))

\* a stored cursor that deletions left at or above the size was read
SeqReadsModLiveSizeWitness ==
    \E t \in DOMAIN tokens :
        /\ IsSeqPhoto(t) /\ res.status = 200
        /\ read.cursor >= Cardinality(pictures)

\* the array in a non-NULL random_ids column
CachedIds(t) == JSONparse(tokens[t].random_ids)

\* array a lists every element of set S exactly once
IsPermutationOf(a, S) ==
    /\ Len(a) = Cardinality(S)
    /\ {a[i] : i \in 1..Len(a)} = S

\* C7: inserting or deleting a picture changes no row of table tokens, so a
\* deleted id stays in the cached permutations and an inserted id stays out
\* of them; a token's cached permutation changes only in a randomized
\* delivery of that token, which leaves a permutation of exactly the ids
\* alive at that moment.
PermChangesOnlyAtRegeneration ==
    [][/\ Mutated => tokens' = tokens
       /\ \A t \in DOMAIN tokens \cap DOMAIN tokens' :
              tokens'[t].random_ids # tokens[t].random_ids =>
                  /\ RndDelivered(t)
                  /\ tokens'[t].random_ids # SqlNull
                  /\ IsPermutationOf(JSONparse(tokens'[t].random_ids), pictures')]_vars

\* after a delete and an insert a cached permutation still holds the deleted
\* id and lacks the inserted one
PermChangesOnlyAtRegenerationWitness ==
    \E t \in DOMAIN tokens :
        /\ tokens[t].random_ids # SqlNull
        /\ res.op \in {"addPicture", "deletePicture"} /\ res.status = 200
        /\ \E i \in 1..Len(CachedIds(t)) : CachedIds(t)[i] \notin pictures
        /\ \E p \in pictures : \A i \in 1..Len(CachedIds(t)) : CachedIds(t)[i] # p

\* C8: each token's randomized state is either uninitialised (random_ids
\* NULL, random_index 0) or a non-empty duplicate-free array with
\* 0 <= random_index < length; after a randomized delivery that wrote the
\* state it is the second.
RandomStateNeverExhausted ==
    \A t \in DOMAIN tokens :
        /\ \/ tokens[t].random_ids = SqlNull /\ tokens[t].random_index = 0
           \/ /\ tokens[t].random_ids # SqlNull
              /\ Len(CachedIds(t)) >= 1
              /\ tokens[t].random_index \in 0..(Len(CachedIds(t)) - 1)
              /\ \A i, j \in 1..Len(CachedIds(t)) :
                     CachedIds(t)[i] = CachedIds(t)[j] => i = j
        /\ (IsRndPhoto(t) /\ pictures # {}) => tokens[t].random_ids # SqlNull

\* the last id of a permutation of at least two ids was just read and the
\* state written is a new permutation with cursor 0
RandomStateNeverExhaustedWitness ==
    \E t \in DOMAIN tokens :
        /\ IsRndPhoto(t) /\ res.status = 200
        /\ read.cursor >= 1
        /\ tokens[t].random_index = 0

\* C9: when the id at a token's randomized cursor no longer resolves, the
\* randomized delivery answers 404 Not found and serves no picture; the
\* cursor still moves by one position only.
StaleIdIsNotFound ==
    \A t \in DOMAIN tokens :
        (IsRndPhoto(t) /\ read # NoRead /\ read.picId \notin pictures) =>
            /\ res.status = 404
            /\ res.error = "Not found"
            /\ res.id = NoPic
            /\ tokens[t].random_index \in {0, read.cursor + 1}

\* a deleted id was at the cursor while the next id of the permutation
\* still exists
StaleIdIsNotFoundWitness ==
    \E t \in DOMAIN tokens :
        /\ IsRndPhoto(t) /\ read # NoRead
        /\ read.picId # NoPic /\ read.picId \notin pictures
        /\ tokens[t].random_index = read.cursor + 1
        /\ CachedIds(t)[read.cursor + 1] = read.picId
        /\ CachedIds(t)[read.cursor + 2] \in pictures

\* C10 as stated: a delivery or a fetch that presents a token that is not in
\* table tokens (never created, or deleted) is answered 403, whatever the
\* picture collection holds.
UnknownTokenIsForbidden ==
    (/\ res.op \in {"photo", "file"}
     /\ res.token # NoTokenParam
     /\ res.token \notin DOMAIN tokens) => res.status = 403

\* the collection as it was at event j of fresh[t].log (no picture has been
\* deleted since, so it is the present one without the later inserts)
PicsAt(t, j) ==
    pictures \ {fresh[t].log[i].id :
                    i \in {i \in (j + 1)..Len(fresh[t].log) :
                              fresh[t].log[i].ev = "insert"}}

\* the deliveries among the first j - 1 events of fresh[t].log
ServesBefore(t, j) == {i \in 1..(j - 1) : fresh[t].log[i].ev = "serve"}

\* ordinal index of picture p in collection S
Rank(S, p) == Cardinality({q \in S : q < p})

SeqNoRepeatUnderMutation ==
    \A t \in DOMAIN tokens : served[t].again = NoPic

\* C4 amended: as long as no picture has been deleted since the token was
\* created (pictures are only added), no picture is served again while a
\* surviving picture of the current pass is still unserved.
SeqNoRepeatUnderInsertion ==
    \A t \in DOMAIN tokens : ~served[t].del => served[t].again = NoPic

\* a picture was inserted in the middle of a pass and the pass went on
SeqNoRepeatUnderInsertionWitness ==
    \E t \in DOMAIN tokens :
        /\ ~served[t].del /\ served[t].ins
        /\ IsSeqPhoto(t) /\ res.status = 200
        /\ Cardinality(served[t].ids) >= 2

\* C6 as stated: n consecutive randomized deliveries that start at the start
\* of a permutation, the n pictures being unchanged meanwhile, return every
\* existing id exactly once.
RandomFullCycle ==
    \A t \in DOMAIN tokens :
        (cycle[t].on /\ pictures # {}
         /\ Len(cycle[t].log) = Cardinality(pictures)) =>
            IsPermutationOf(cycle[t].log, pictures)

\* C6 amended: the same when the permutation the deliveries start with was
\* generated from the collection as it is during them (no insert or delete
\* since its generation): no id is returned twice and after n deliveries
\* every existing id has been returned exactly once.
RandomFullCycleOfFreshPermutation ==
    \A t \in DOMAIN tokens :
        (cycle[t].on /\ cycle[t].fromFresh) =>
            /\ \A i \in 1..Len(cycle[t].log) : cycle[t].log[i] \in pictures
            /\ \A i, j \in 1..Len(cycle[t].log) :
                   cycle[t].log[i] = cycle[t].log[j] => i = j
            /\ Len(cycle[t].log) = Cardinality(pictures) =>
                   IsPermutationOf(cycle[t].log, pictures)

\* a full cycle over three pictures, not in ascending order
RandomFullCycleOfFreshPermutationWitness ==
    \E t \in DOMAIN tokens :
        /\ cycle[t].on /\ cycle[t].fromFresh
        /\ Cardinality(pictures) = 3
        /\ Len(cycle[t].log) = 3
        /\ cycle[t].log # SortAsc(pictures)

\* C11: a delivery with a valid token against a gallery with zero pictures,
\* in either mode, is answered 404 "No pictures in gallery" and leaves the
\* token's state unread; that answer differs from the 404 "Not found" given
\* for a picture that does not resolve, which only a non-empty gallery gives.
EmptyCollectionIsDistinct ==
    \A t \in DOMAIN tokens :
        (res.op = "photo" /\ res.token = t) =>
            /\ pictures = {} =>
                   /\ res.status = 404
                   /\ res.error = "No pictures in gallery"
                   /\ read = NoRead
            /\ pictures # {} => res.error \in {"", "Not found"}
            /\ res.error = "Not found" => (read # NoRead /\ res.status = 404)

\* a randomized delivery against the emptied gallery for a token whose cached
\* permutation still lists deleted ids
EmptyCollectionIsDistinctWitness ==
    \E t \in DOMAIN tokens :
        /\ IsRndPhoto(t)
        /\ pictures = {}
        /\ tokens[t].random_ids # SqlNull
        /\ res.error = "No pictures in gallery"


\* C13: createToken inserts the row with current_index 0, random_ids NULL and
\* random_index 0; a token leaves table tokens only by deleteToken on that
\* token, whatever deliveries, fetches, picture mutations, settings changes
\* and operations on other tokens happen, and while it is there no delivery
\* or fetch presenting it is answered 403; once deleted it never comes back
\* and no request presenting it succeeds.
TokenLifecycle ==
    [][\A t \in TokenNames :
          /\ Created(t) =>
                 (t \notin DOMAIN tokens /\ t \in DOMAIN tokens'
                  /\ tokens'[t] = NewTokenRow)
          /\ (t \in DOMAIN tokens /\ t \notin DOMAIN tokens') =>
                 (res'.op = "deleteToken" /\ res'.token = t)
          /\ (t \in DOMAIN tokens' /\ res'.op \in {"photo", "file"}
              /\ res'.token = t) => res'.status # 403
          /\ (t \in issued /\ t \notin DOMAIN tokens) =>
                 /\ t \notin DOMAIN tokens'
                 /\ (res'.op \in {"photo", "file"} /\ res'.token = t) =>
                        res'.status \in {403, 404}]_vars

\* one token was deleted and is refused while the other, after deliveries in
\* both modes, a picture deletion and a settings change, is still served
TokenLifecycleWitness ==
    \E t, u \in TokenNames :
        /\ t \in issued /\ t \notin DOMAIN tokens
        /\ u \in DOMAIN tokens
        /\ tokens[u].current_index > 0
        /\ tokens[u].random_ids # SqlNull
        /\ \E i \in 1..Len(CachedIds(u)) : CachedIds(u)[i] \notin pictures
        /\ settings.max_resolution # NumberToText(defaultMaxResolution)
        /\ res.op = "photo" /\ res.token = u /\ res.status = 200

\* C14: a fetch by id presenting a token of table tokens is answered 200 with
\* the picture when the id exists and 404 when it does not, whatever that
\* token's cursor and cached permutation are, and no fetch changes any row
\* of table tokens.
FetchIsIndependentOfTraversal ==
    [][res'.op = "file" =>
          /\ tokens' = tokens
          /\ res'.token \in DOMAIN tokens =>
                 /\ read'.picId \in pictures =>
                        (res'.status = 200 /\ res'.id = read'.picId)
                 /\ read'.picId \notin pictures => res'.status = 404]_vars

\* a token that was never served anything fetched a picture while the other
\* token is in the middle of both traversals
FetchIsIndependentOfTraversalWitness ==
    \E t, u \in DOMAIN tokens :
        /\ res.op = "file" /\ res.token = t /\ res.status = 200
        /\ tokens[t] = NewTokenRow
        /\ tokens[u].current_index > 0
        /\ tokens[u].random_ids # SqlNull /\ tokens[u].random_index > 0


\* the characters of "paris-2024"
ParisSlug == <<"p", "a", "r", "i", "s", "-", "2", "0", "2", "4">>

\* C17: normalizeTag applied to its own result returns that result, for
\* every string over letters of both cases, digits, whitespace, hyphen and
\* punctuation; a value that is not a string gives the empty slug; and
\* normalizeTag("  Paris, 2024!! ") is "paris-2024".
NormalizeIsIdempotent ==
    /\ norm.stage = "twice" => norm.twice = norm.once
    /\ (norm.stage \in {"once", "twice"} /\ norm.x.type # "string") =>
           norm.once = <<>>
    /\ (norm.stage \in {"once", "twice"} /\ norm.x = JsString(ParisRaw)) =>
           norm.once = ParisSlug

\* the scenario's string was normalized twice
NormalizeIsIdempotentWitness ==
    /\ norm.stage = "twice"
    /\ norm.x = JsString(ParisRaw)
    /\ norm.twice = ParisSlug


\* the methods of Gallery that write table pictures or the tags of a picture
PictureMutations ==
    {"addPicture", "upload", "deletePicture", "setPictureTags",
     "updatePictureDescription", "updatePictureDateLocation"}

\* C15: addPicture, deletePicture, setPictureTags, updatePictureDescription
\* and updatePictureDateLocation leave table tokens as it is: no token
\* appears or disappears and no current_index, random_ids or random_index
\* changes.
MutationsLeaveTokens ==
    [][res'.op \in PictureMutations => tokens' = tokens]_vars

\* a picture was deleted under a token whose cached permutation lists it
MutationsLeaveTokensWitness ==
    \E t \in DOMAIN tokens :
        /\ res.op = "deletePicture" /\ res.status = 200
        /\ tokens[t].random_ids # SqlNull
        /\ \E i \in 1..Len(CachedIds(t)) : CachedIds(t)[i] = res.id
        /\ tagSeq > 0

\* C16: the id addPicture returns is greater than every id it has returned
\* before, the ids of deleted pictures included; the insert keeps every
\* picture that was there, under the id it had, and at the ordinal index it
\* had.
InsertIsAppendOnly ==
    [][res'.op \in {"addPicture", "upload"} =>
          /\ \A a \in assigned \cup pictures : res'.id > a
          /\ pictures' = pictures \cup {res'.id}
          /\ \A p \in pictures : Rank(pictures', p) = Rank(pictures, p)]_vars

\* a picture was inserted after the picture with the largest id was deleted
InsertIsAppendOnlyWitness ==
    /\ res.op = "upload"
    /\ pictures = {res.id}
    /\ assigned = {res.id - 1, res.id}

\* the slug has only characters of [a-z0-9-], no hyphen at either end and no
\* two hyphens in a row
IsCanonical(n) ==
    /\ Len(n) > 0
    /\ \A i \in 1..Len(n) : IsSlugChar(n[i])
    /\ n[1] # "-" /\ n[Len(n)] # "-"
    /\ \A i \in 1..(Len(n) - 1) : ~(n[i] = "-" /\ n[i + 1] = "-")

\* C18: no two rows of table tags have the same name, and every name is a
\* non-empty slug: characters of [a-z0-9-] only, no leading hyphen, no
\* trailing hyphen, no two adjacent hyphens.
TagNamesAreCanonical ==
    /\ DOMAIN tags = 1..tagSeq
    /\ \A i, j \in DOMAIN tags : tags[i] = tags[j] => i = j
    /\ \A i \in DOMAIN tags : IsCanonical(tags[i])
    /\ \A pt \in picture_tags : pt[1] \in pictures /\ pt[2] \in DOMAIN tags

\* three tags, one of them with a hyphen, and a tag that two pictures share
TagNamesAreCanonicalWitness ==
    /\ tagSeq = 3
    /\ \E i \in DOMAIN tags : \E k \in 1..Len(tags[i]) : tags[i][k] = "-"
    /\ \E p, q \in pictures, i \in DOMAIN tags :
           p # q /\ <<p, i>> \in picture_tags /\ <<q, i>> \in picture_tags

\* the slugs of the names of an array, the empty slug left out
SlugsOf(tagNames) ==
    {normalizeTag(tagNames[i]) : i \in 1..Len(tagNames)} \ {<<>>}

\* C19: after setPictureTags(id, names) on an existing picture, the tags of
\* the picture are exactly the non-empty slugs of the names, one association
\* for each, whatever its tags were before; the three spellings of Paris
\* leave one association, named paris.
SetTagsReplaces ==
    (res.op = "setPictureTags" /\ res.status = 200) =>
        /\ getPictureTags(res.id) = SlugsOf(asked)
        /\ Cardinality({pt \in picture_tags : pt[1] = res.id})
               = Cardinality(SlugsOf(asked))
        /\ asked = <<NameParis, NameParisLower, NameParisSpaced>> =>
               /\ getPictureTags(res.id) = {<<"p", "a", "r", "i", "s">>}
               /\ Cardinality({pt \in picture_tags : pt[1] = res.id}) = 1

\* the three spellings of Paris were set on a picture that had other tags,
\* while there are more tag rows than paris
SetTagsReplacesWitness ==
    /\ res.op = "setPictureTags" /\ res.status = 200
    /\ asked = <<NameParis, NameParisLower, NameParisSpaced>>
    /\ tagSeq = 3
    /\ Cardinality({pt \in picture_tags : pt[1] = res.id}) = 1

\* C20: setPictureTags, updatePictureDescription, updatePictureDateLocation
\* and deletePicture called with an id that is not in table pictures return
\* false (answered 404 here) and leave pictures, tags and picture_tags as
\* they are; setPictureTags then makes no tag row.
AbsentPictureIsNotFound ==
    [][(/\ res'.op \in {"setPictureTags", "updatePictureDescription",
                        "updatePictureDateLocation", "deletePicture"}
        /\ read'.picId \notin pictures) =>
           /\ res'.status = 404
           /\ UNCHANGED <<pictures, seq, info, tags, tagSeq, picture_tags>>]_vars

\* setPictureTags was called for a deleted picture with a name whose slug is
\* in no tag row
AbsentPictureIsNotFoundWitness ==
    /\ res.op = "setPictureTags" /\ res.status = 404
    /\ read.picId \in assigned
    /\ tagSeq > 0
    /\ \E n \in SlugsOf(asked) : \A i \in DOMAIN tags : tags[i] # n


\* the requests of c and d were in flight together, the handler of c ran
\* first, and both handlers read the state of the token
RanTogether(c, d) ==
    /\ clients[c].stage = "done" /\ clients[c].order = 1 /\ clients[c].got
    /\ clients[d].stage = "done" /\ clients[d].order = 2 /\ clients[d].got

\* C12 as stated, for two delivery requests with one token that are in flight
\* together: both read the same cursor and permutation, so the state written
\* last is one step from the state both read.
ConcurrentDeliveriesShareSnapshot ==
    \A c, d \in Clients :
        RanTogether(c, d) => clients[d].before = clients[c].before

\* C12 amended: the handler of GET /photo is synchronous, so of two delivery
\* requests with one token that are in flight together the second handled
\* reads the state the first wrote: no advance is lost; in sequential mode
\* over n >= 2 unchanged pictures the two are served different pictures and
\* the cursor ends two steps on.
ConcurrentDeliveriesAreSerialized ==
    \A c, d \in Clients :
        RanTogether(c, d) =>
            /\ clients[d].before = clients[c].after
            /\ (/\ clients[c].mode # "random" /\ clients[d].mode # "random"
                /\ clients[c].n = clients[d].n /\ clients[c].n >= 2) =>
                   /\ clients[d].id # clients[c].id
                   /\ clients[d].after.current_index =
                          (clients[c].before.current_index + 2) % clients[c].n

\* two sequential deliveries in flight together over two pictures, both
\* handled
ConcurrentDeliveriesAreSerializedWitness ==
    \E c, d \in Clients :
        /\ RanTogether(c, d)
        /\ clients[c].mode # "random" /\ clients[d].mode # "random"
        /\ clients[c].n = 2 /\ clients[d].n = 2
        /\ clients[c].seen = clients[d].seen
        /\ clients[d].id # clients[c].id


\* C21: no association refers to a picture that is not in the store; a
\* successful deletePicture removes the picture from getAllPictureIds and
\* all its associations, keeps the associations of the other pictures and
\* every row of tags, and listTagsWithCount reports every tag with the number
\* of associations it has left, 0 when it has none.
DeleteCascadesToAssociations ==
    [][/\ \A pt \in picture_tags' : pt[1] \in pictures'
       /\ (res'.op = "deletePicture" /\ res'.status = 200) =>
              /\ \A i \in 1..Len(getAllPictureIds') :
                     getAllPictureIds'[i] # res'.id
              /\ picture_tags' = {pt \in picture_tags : pt[1] # res'.id}
              /\ tags' = tags
              /\ \A i \in DOMAIN tags :
                     <<tags[i], Cardinality({pt \in picture_tags :
                                   pt[2] = i /\ pt[1] # res'.id})>>
                         \in listTagsWithCount']_vars

\* a tagged picture was deleted: one tag is left without association while
\* another picture keeps its tag
DeleteCascadesToAssociationsWitness ==
    /\ res.op = "deletePicture" /\ res.status = 200
    /\ \E row \in listTagsWithCount : row[2] = 0
    /\ \E row \in listTagsWithCount : row[2] = 1
    /\ pictures # {}


\* the values getPictureByIndex returns for the indexes 0..MaxIdFiles
Ordinals == [i \in 0..MaxIdFiles |-> getPictureByIndex(i)]

\* C22: addPicture with a filename a row of pictures already has fails with
\* the UNIQUE constraint error and leaves the rows of pictures, the id
\* counter, getAllPictureIds and the picture at every index unchanged;
\* addPicture with a filename no row has succeeds and adds the row.
DuplicateFilenameConflicts ==
    [][\A name \in FileNames :
          AddPictureNamed(NamedFile(name), SqlNull, SqlNull) =>
              IF \E p \in pictures : info[p].filename = NamedFile(name)
              THEN /\ res'.status # 200 /\ res'.error = UniqueFailed
                   /\ pictures' = pictures /\ info' = info /\ seq' = seq
                   /\ getAllPictureIds' = getAllPictureIds
                   /\ Ordinals' = Ordinals
              ELSE /\ res'.status = 200
                   /\ res'.id \notin pictures
                   /\ pictures' = pictures \cup {res'.id}
                   /\ info'[res'.id].filename = NamedFile(name)]_vars

\* a filename two pictures away was offered again and refused
DuplicateFilenameConflictsWitness ==
    /\ res.op = "addPicture" /\ res.error = UniqueFailed
    /\ Cardinality(pictures) = 2
    /\ \E p \in pictures : info[p].filename = NamedFile("a.jpg")
    /\ \E p \in pictures : info[p].filename = NamedFile("b.jpg")


IsFailedDelivery(r) ==
    /\ r.op = "photo"
    /\ \/ r.status = 400
       \/ r.status = 403
       \/ r.status = 404 /\ r.error = "No pictures in gallery"

\* C28: a delivery that ends with the missing-token error, with Forbidden or
\* with the empty-collection outcome leaves the row of every token
\* (current_index, random_ids, random_index) and the whole picture store
\* unchanged.
FailedDeliveryChangesNothing ==
    [][IsFailedDelivery(res') =>
           /\ tokens' = tokens
           /\ pictures' = pictures /\ seq' = seq
           /\ store' = store]_vars

\* a delivery was refused for the empty gallery while the token presented
\* holds a cached permutation and an advanced cursor
FailedDeliveryChangesNothingWitness ==
    /\ IsFailedDelivery(res) /\ res.status = 404
    /\ res.token \in DOMAIN tokens
    /\ tokens[res.token].random_ids # SqlNull


\* the positions from the cursor on of the cached permutation of a token row
\* whose id is not in collection S
StaleAhead(row, S) ==
    IF row.random_ids = SqlNull THEN 0
    ELSE Cardinality({i \in (row.random_index + 1)..Len(JSONparse(row.random_ids)) :
                         JSONparse(row.random_ids)[i] \notin S})

\* C29: a randomized delivery that ends in NotFound read a deleted id at the
\* cursor of the cached permutation and still stores the cursor advanced by
\* one, or a permutation of the live ids with cursor 0 when that was the last
\* position: the stale positions ahead of the cursor become one fewer. A
\* randomized delivery that serves a picture adds no stale position. So,
\* without further deletions, a token gets NotFound at most once per stale id
\* in its cached permutation, and then serves existing pictures again.
StaleIdDoesNotWedge ==
    [][\A t \in DOMAIN tokens :
          (res'.op = "photo" /\ res'.token = t /\ res'.mode = "random"
              /\ read' # NoRead) =>
             IF res'.status = 404
             THEN /\ tokens[t].random_ids # SqlNull
                  /\ read'.cursor = tokens[t].random_index
                  /\ read'.picId \notin pictures
                  /\ StaleAhead(tokens[t], pictures) >= 1
                  /\ StaleAhead(tokens'[t], pictures') =
                         StaleAhead(tokens[t], pictures) - 1
                  /\ IF read'.cursor + 1 >= Len(CachedIds(t))
                     THEN /\ tokens'[t].random_index = 0
                          /\ IsPermutationOf(JSONparse(tokens'[t].random_ids),
                                             pictures)
                     ELSE /\ tokens'[t].random_index = read'.cursor + 1
                          /\ tokens'[t].random_ids = tokens[t].random_ids
             ELSE /\ res'.status = 200
                  /\ StaleAhead(tokens'[t], pictures') <=
                         StaleAhead(tokens[t], pictures)]_vars

\* a randomized delivery met a deleted id, the collection is not empty and
\* another deleted id is still ahead of the cursor
StaleIdDoesNotWedgeWitness ==
    \E t \in DOMAIN tokens :
        /\ IsRndPhoto(t) /\ res.status = 404 /\ res.error = "Not found"
        /\ pictures # {}
        /\ read.picId # NoPic /\ read.picId \notin pictures
        /\ StaleAhead(tokens[t], pictures) = 1


\* the cursor of token t is at a position of a stored permutation
AtStoredPosition(t) ==
    /\ tokens[t].random_ids # SqlNull
    /\ tokens[t].random_index < Len(CachedIds(t))

\* C30: the randomized delivery that reads the last position of a permutation
\* stores, in the same request, the permutation of the next cycle, drawn from
\* the ids alive at that moment, with cursor 0; a delivery at a position of a
\* stored permutation reads the id stored there whatever the collection has
\* become since: it serves that id when it is alive and answers NotFound when
\* it was deleted, so a picture inserted since the rollover is not served
\* before the stored permutation is consumed.
NextCycleFixedAtRollover ==
    [][\A t \in DOMAIN tokens :
          (res'.op = "photo" /\ res'.token = t /\ res'.mode = "random"
              /\ read' # NoRead) =>
             LET n == IF AtStoredPosition(t) THEN Len(CachedIds(t))
                      ELSE Cardinality(pictures)
             IN /\ AtStoredPosition(t) =>
                       /\ read'.cursor = tokens[t].random_index
                       /\ read'.picId = CachedIds(t)[tokens[t].random_index + 1]
                       /\ read'.picId \in pictures =>
                              res'.status = 200 /\ res'.id = read'.picId
                       /\ read'.picId \notin pictures =>
                              res'.status = 404 /\ res'.error = "Not found"
                /\ IF read'.cursor + 1 >= n
                   THEN /\ tokens'[t].random_index = 0
                        /\ IsPermutationOf(JSONparse(tokens'[t].random_ids),
                                           pictures)
                   ELSE /\ tokens'[t].random_index = read'.cursor + 1
                        /\ AtStoredPosition(t) =>
                               tokens'[t].random_ids = tokens[t].random_ids]_vars

\* a randomized delivery served from the stored permutation, which stays
\* stored, while a picture that is not in that permutation exists
NextCycleFixedAtRolloverWitness ==
    \E t \in DOMAIN tokens :
        /\ IsRndPhoto(t) /\ res.status = 200
        /\ tokens[t].random_index = read.cursor + 1
        /\ Len(CachedIds(t)) = 2
        /\ \E p \in pictures :
               \A i \in 1..Len(CachedIds(t)) : CachedIds(t)[i] # p


\* the request just handled was attached to a gallery
Attached(r) == r.op # "init" /\ (r.userId = NoUser \/ ValidUserId(r.userId))

\* a request addressed to a gallery leaves the tables of every other gallery
\* and the Gallery of every other key as they were
OperationsStayInGallery ==
    [][Attached(req') =>
           /\ \A k \in DOMAIN galleries : galleries'[k] = galleries[k]
           /\ \A d \in DOMAIN disk :
                  d # galleries'[keyOf(req'.userId)] => disk'[d] = disk[d]]_vars

\* C23: a request addressed to a gallery changes no table of another
\* gallery, and a delivery or a fetch addressed to a gallery with a token
\* that was created in another gallery, and not in this one, is answered 403.
TenantsAreIsolated ==
    [][Attached(req') =>
           /\ \A k \in DOMAIN galleries : galleries'[k] = galleries[k]
           /\ \A d \in DOMAIN disk :
                  d # galleries'[keyOf(req'.userId)] => disk'[d] = disk[d]
           /\ (/\ res'.op \in {"photo", "file"}
               /\ res'.token \notin
                      DOMAIN disk'[galleries'[keyOf(req'.userId)]].tokens
               /\ \E d \in DOMAIN disk : res'.token \in DOMAIN disk[d].tokens)
              => res'.status = 403]_vars

\* C27: the gallery of the key 'default', which requests without user id and
\* requests with user id 'default' both get, is the one in the root data
\* directory.
DefaultGalleryIsRoot ==
    "default" \in DOMAIN galleries =>
        /\ getGallery(NoUser).dir = getGallery("default").dir
        /\ galleries["default"] = DATA_DIR


\* the routes behind requireAuth
AdminOps ==
    {"putPassword", "upload", "deletePicture", "createToken", "deleteToken"}

LoginFollowsGalleryPassword ==
    [][(Attached(req') /\ req'.op = "login") =>
           LET g == keyOf(req'.userId)
           IN (res'.status = 200) <=>
                  IF trail.lastSet[g] = "" THEN req'.arg = PASSWORD
                  ELSE req'.arg = trail.lastSet[g]]_vars

\* the global password was refused by a gallery that has its own password
\* while another gallery has none
LoginFollowsGalleryPasswordWitness ==
    /\ Attached(req) /\ req.op = "login"
    /\ req.arg = PASSWORD /\ res.status = 401
    /\ trail.lastSet[keyOf(req.userId)] = "secret"
    /\ \E g \in DOMAIN trail.lastSet : trail.lastSet[g] = ""

\* array a holds no value at two positions
IsDuplicateFree(a) ==
    \A i, j \in 1..Len(a) : a[i] = a[j] => i = j

\* the randomized delivery of this step, for token t, generates a permutation:
\* the stored one was missing, empty or consumed, or its last position is read
Regenerates(t) ==
    /\ res'.op = "photo" /\ res'.token = t /\ res'.mode = "random"
    /\ read' # NoRead
    /\ \/ needRegen(getTokenRandomState(t))
       \/ read'.cursor + 1 >= Len(CachedIds(t))

\* C31: in every state the cached permutation of every token holds no id
\* twice; every randomized delivery that regenerates stores an array with the
\* length and the elements of getAllPictureIds() as it is in that request; a
\* call of shuffle leaves its argument as it was, returns an array with the
\* same length and elements, and what it returns is what the handler stores.
CachedPermutationsAreDuplicateFree ==
    /\ [](/\ \A t \in DOMAIN tokens :
                 tokens[t].random_ids # SqlNull => IsDuplicateFree(CachedIds(t))
          /\ \A h \in shuffleCall(getAllPictureIds) :
                 /\ h.arr = getAllPictureIds
                 /\ Len(h.a) = Len(h.arr)
                 /\ IsPermutationOf(h.a, pictures)
          /\ {h.a : h \in shuffleCall(getAllPictureIds)}
                 = shuffle(getAllPictureIds))
    /\ [][\A t \in DOMAIN tokens :
              Regenerates(t) =>
                  /\ tokens'[t].random_ids # SqlNull
                  /\ Len(JSONparse(tokens'[t].random_ids)) = Len(getAllPictureIds)
                  /\ IsPermutationOf(JSONparse(tokens'[t].random_ids), pictures)
                  /\ JSONparse(tokens'[t].random_ids) \in shuffle(getAllPictureIds)
                  /\ pictures' = pictures]_vars

\* a randomized delivery has just stored a regenerated permutation of three
\* pictures that is not in ascending order
CachedPermutationsAreDuplicateFreeWitness ==
    \E t \in DOMAIN tokens :
        /\ IsRndPhoto(t) /\ res.status = 200
        /\ tokens[t].random_index = 0
        /\ Len(CachedIds(t)) = 3
        /\ CachedIds(t) # getAllPictureIds
        /\ IsPermutationOf(CachedIds(t), pictures)

\* C32: a sequential delivery leaves random_ids and random_index of its token
\* as they were and a randomized delivery leaves current_index as it was; at
\* every moment the sequential cursor of a token is the one its sequential
\* deliveries alone would have left, its permutation and randomized cursor
\* are the ones its randomized deliveries alone would have left, and every
\* delivery gives the picture its mode would have given without the other.
ModesAreIndependent ==
    /\ [](\A t \in DOMAIN tokens :
              /\ tokens[t].current_index = solo[t].next.current_index
              /\ SameRandomState(tokens[t], solo[t].random)
              /\ (res.op = "photo" /\ res.token = t /\ read # NoRead) =>
                     res.id = solo[t].id)
    /\ [][\A t \in DOMAIN tokens \cap DOMAIN tokens' :
              /\ SeqDelivered(t) => SameRandomState(tokens'[t], tokens[t])
              /\ RndDelivered(t) =>
                     tokens'[t].current_index = tokens[t].current_index]_vars

\* a sequential delivery made in the middle of a stored permutation, the
\* sequential cursor having moved before: the two modes are interleaved
ModesAreIndependentWitness ==
    \E t \in DOMAIN tokens :
        /\ IsSeqPhoto(t) /\ res.status = 200
        /\ read.cursor >= 1
        /\ tokens[t].random_ids # SqlNull
        /\ tokens[t].random_index >= 1
        /\ Cardinality(pictures) = 3

\* C33: a delivery in either mode, a creation or a deletion that names token
\* t leaves the row of every other token as it was (sequential cursor,
\* cached permutation and randomized cursor) and leaves the pictures, their
\* columns, the tags and the tag associations as they were.
TokensAreIndependent ==
    [][\A t \in TokenNames :
          (res'.op \in {"photo", "createToken", "deleteToken"}
              /\ res'.token = t) =>
             /\ \A u \in DOMAIN tokens \ {t} :
                    u \in DOMAIN tokens' /\ tokens'[u] = tokens[u]
             /\ DOMAIN tokens' \subseteq DOMAIN tokens \cup {t}
             /\ pictures' = pictures /\ seq' = seq
             /\ UNCHANGED store]_vars

\* a randomized delivery for one token has just stored a regenerated
\* permutation while the other token is in the middle of a stored permutation
\* and of a sequential pass
TokensAreIndependentWitness ==
    \E t, u \in DOMAIN tokens :
        /\ t # u
        /\ IsRndPhoto(t) /\ res.status = 200
        /\ tokens[t].random_index = 0
        /\ tokens[u].random_ids # SqlNull
        /\ tokens[u].random_index = 1
        /\ tokens[u].current_index = 1
        /\ CachedIds(u) # CachedIds(t)

====
